---- MODULE Spec2Model ----
(***************************************************************************)
(* USDT payment processor: deposit reconciliation (poller and manual      *)
(* verification) and the withdrawal processor, over the SQLite ledger.     *)
(*                                                                         *)
(* Units.  Token amounts are held in hundredths of a USDT (1 unit = 10^4   *)
(* sun), ledger amounts in hundredths of a KES, so that the program's      *)
(* bounds (0.1 .. 10000 USDT) and rate (130) are exact machine integers.   *)
(* The amount handed to the token contract is held in sun.                 *)
(***************************************************************************)
EXTENDS Integers, Sequences, FiniteSets, TLC

\* ---------------------------------------------------------------- constants
USDT_TO_KES_RATE == 130
MIN_DEPOSIT == 10
MAX_DEPOSIT == 1000000
MIN_WITHDRAWAL_USDT == 100
MAX_WITHDRAWAL_USDT == 1000000
MIN_MASTER_TRX == 10
SUN_PER_TRX == 1000000
SUN_PER_USDT == 1000000
TRON_ADDRESS_LENGTH == 34

\* sun in one hundredth of a USDT
SUN_PER_UNIT == SUN_PER_USDT \div 100

\* ------------------------------------------------------------------- bounds
MaxWithdrawals == 2
MaxAmountSteps == 3
MaxUsers == 4
MaxSweepRuns == 2

UserIds == {1, 2}
Hashes == {"h1", "h2"}
HashOrder == <<"h1", "h2">>
Pollers == {1, 2}
Reqs == {1, 2}
WReqs == {1, 2}
\* an id that is in no row of users (req.user.id of a deleted account)
UnknownUserId == 3
NULL == "NULL"
ExternalAddress == "TExternal"

VARIABLES users, deposits, processed_tx_hashes, transactions, withdrawals,
          chain, master, sent, poll, verify, wreq, response, acct,
          wallet_config, register, wallets, sweeps, sweep, env, monitor

db == <<users, deposits, processed_tx_hashes, transactions, withdrawals>>
vars == <<users, deposits, processed_tx_hashes, transactions, withdrawals,
          chain, master, sent, poll, verify, wreq, response, acct,
          wallet_config, register, wallets, sweeps, sweep, env, monitor>>

\* the state of registration and the state of consolidation
registration == <<wallet_config, register>>
consolidation == <<wallets, sweeps, sweep>>
\* the environment of the process and the state of the deposit monitor
runtime == <<env, monitor>>

\* ------------------------------------------------------------------ helpers
Indices(s) == 1..Len(s)

\* SELECT ... FROM deposits WHERE tx_hash = ? (tx_hash is UNIQUE); 0 = no row
DepositIdOf(h) ==
  IF \E i \in Indices(deposits) : deposits[i].tx_hash = h
  THEN CHOOSE i \in Indices(deposits) : deposits[i].tx_hash = h
  ELSE 0

\* SELECT id FROM processed_tx_hashes WHERE tx_hash = ?
Processed(h) == \E m \in processed_tx_hashes : m.tx_hash = h

\* the address assigned to an account at registration (users.tron_address)
AddressOf(u) == IF u = 1 THEN "TUser1" ELSE "TUser2"

\* values a transfer on the chain may carry (hundredths of a USDT):
\* 0.01, exactly the minimum, 5, exactly the maximum, just above the maximum
TransferValues == {1, MIN_DEPOSIT, 500, MAX_DEPOSIT, MAX_DEPOSIT + 1}

\* a hash the provider has no USDT transfer for
NoTransfer == [found |-> FALSE, from |-> NULL, to |-> NULL, value |-> 0]

Transfer(to, value) ==
  [found |-> TRUE, from |-> ExternalAddress, to |-> to, value |-> value]

\* the transfers the provider knows: h1 is any transfer to account 1 (the
\* two accounts are alike), h2 is a 5 USDT transfer to either account or a
\* hash that is no transfer at all
ChainConfigs ==
  { c \in [Hashes -> {NoTransfer} \cup
                     {Transfer(AddressOf(u), v) : u \in UserIds, v \in TransferValues}] :
      /\ c["h1"].found /\ c["h1"].to = AddressOf(1)
      /\ c["h2"].found => c["h2"].value = 500 }

\* the HTTP response sent by the step just taken, if it sent one
NoResponse == [status |-> 0, message |-> NULL, txId |-> NULL]

IdleVerify == [pc |-> "idle", userId |-> 0, txId |-> NULL, depositId |-> 0]
IdlePoll == [user |-> 0, txs |-> <<>>]
IdleWreq == [pc |-> "idle", userId |-> 0, withdrawalId |-> 0]
IdleRegister == [pc |-> "idle", phone |-> NULL, username |-> NULL]

\* user addresses that hold no token and no TRX
NoFunds == [u \in UserIds |-> [usdt |-> 0, trx |-> 0]]

\* hdWalletService.deriveAddress: the address of the key at path
\* m/44'/195'/0'/0/index, a different one for every index
DerivedAddresses == <<"TUser1", "TUser2", "TUser3", "TUser4", "TUser5", "TUser6">>
DeriveAddress(index) == DerivedAddresses[index + 1]

\* the phone and username of the accounts that exist from the start, and
\* those a register request may carry
Phones == <<"p1", "p2", "p3", "p4", "p5">>
Usernames == <<"n1", "n2", "n3", "n4", "n5">>

\* ------------------------------------------------- JavaScript numbers
\* The state machines hold amounts as exact decimals.  The program holds
\* them as JavaScript numbers and SQLite REAL columns, that is IEEE-754
\* binary64.  A non-negative finite binary64 value is held here as [m, exp],
\* of value m * 2^exp, with m an odd natural number below 2^53 written in
\* digits of base 2^15, least significant first; zero is
\* [m |-> <<>>, exp |-> 0].  Every operation is the exact result rounded to
\* nearest, ties to even.
DoublePrecision == 53

Base == 2^15

NumberZero == [m |-> <<>>, exp |-> 0]

Min(a, b) == IF a < b THEN a ELSE b

RECURSIVE BitsOf(_)
\* the number of binary digits of a natural number below 2^31
BitsOf(n) == IF n = 0 THEN 0 ELSE 1 + BitsOf(n \div 2)

DigitBits == BitsOf(Base) - 1

RECURSIVE OddPart(_)
OddPart(d) == IF d % 2 = 0 THEN OddPart(d \div 2) ELSE d

RECURSIVE TwoPart(_)
\* d = OddPart(d) * 2^TwoPart(d)
TwoPart(d) == IF d % 2 = 0 THEN 1 + TwoPart(d \div 2) ELSE 0

RECURSIVE BigTrim(_)
\* without its leading zero digits
BigTrim(a) ==
  IF a # <<>> /\ a[Len(a)] = 0 THEN BigTrim(SubSeq(a, 1, Len(a) - 1)) ELSE a

RECURSIVE BigOfNat(_)
BigOfNat(n) == IF n = 0 THEN <<>> ELSE <<n % Base>> \o BigOfNat(n \div Base)

RECURSIVE NatOfBig(_)
NatOfBig(a) == IF a = <<>> THEN 0 ELSE Head(a) + Base * NatOfBig(Tail(a))

RECURSIVE BigAdd(_, _, _)
\* a + b + carry
BigAdd(a, b, carry) ==
  IF a = <<>> /\ b = <<>> THEN (IF carry = 0 THEN <<>> ELSE <<carry>>)
  ELSE LET s == (IF a = <<>> THEN 0 ELSE Head(a))
                + (IF b = <<>> THEN 0 ELSE Head(b)) + carry
       IN <<s % Base>> \o BigAdd(IF a = <<>> THEN a ELSE Tail(a),
                                 IF b = <<>> THEN b ELSE Tail(b), s \div Base)

RECURSIVE BigSub(_, _, _)
\* a - b - borrow, for a >= b + borrow
BigSub(a, b, borrow) ==
  IF a = <<>> THEN <<>>
  ELSE LET d == Head(a) - (IF b = <<>> THEN 0 ELSE Head(b)) - borrow
       IN <<IF d < 0 THEN d + Base ELSE d>>
            \o BigSub(Tail(a), IF b = <<>> THEN b ELSE Tail(b),
                      IF d < 0 THEN 1 ELSE 0)

\* a < b, for a and b without leading zero digits
BigLess(a, b) ==
  \/ Len(a) < Len(b)
  \/ /\ Len(a) = Len(b)
     /\ \E i \in 1..Len(a) :
          a[i] < b[i] /\ \A j \in (i + 1)..Len(a) : a[j] = b[j]

RECURSIVE BigMulSmall(_, _, _)
\* a * s + carry, for s below Base
BigMulSmall(a, s, carry) ==
  IF a = <<>> THEN (IF carry = 0 THEN <<>> ELSE <<carry>>)
  ELSE LET p == Head(a) * s + carry
       IN <<p % Base>> \o BigMulSmall(Tail(a), s, p \div Base)

RECURSIVE BigMul(_, _)
BigMul(a, b) ==
  IF b = <<>> THEN <<>>
  ELSE BigAdd(BigMulSmall(a, Head(b), 0), <<0>> \o BigMul(a, Tail(b)), 0)

RECURSIVE BigDivSmall(_, _)
\* quotient and remainder of a by s, for s below Base
BigDivSmall(a, s) ==
  IF a = <<>> THEN [q |-> <<>>, r |-> 0]
  ELSE LET p == BigDivSmall(Tail(a), s)
           cur == p.r * Base + Head(a)
       IN [q |-> <<cur \div s>> \o p.q, r |-> cur % s]

RECURSIVE ShiftLeft(_, _)
\* a * 2^k
ShiftLeft(a, k) ==
  IF k = 0 \/ a = <<>> THEN a
  ELSE IF k >= DigitBits THEN <<0>> \o ShiftLeft(a, k - DigitBits)
  ELSE BigMulSmall(a, 2^k, 0)

RECURSIVE ShiftRight(_, _)
\* a \div 2^k, and whether a nonzero rest was dropped
ShiftRight(a, k) ==
  IF k = 0 \/ a = <<>> THEN [n |-> a, sticky |-> FALSE]
  ELSE IF k >= DigitBits
  THEN LET p == ShiftRight(Tail(a), k - DigitBits)
       IN [n |-> p.n, sticky |-> p.sticky \/ Head(a) # 0]
  ELSE LET p == BigDivSmall(a, 2^k)
       IN [n |-> BigTrim(p.q), sticky |-> p.r # 0]

\* the number of binary digits of a, for a without leading zero digits
BitLength(a) ==
  IF a = <<>> THEN 0 ELSE DigitBits * (Len(a) - 1) + BitsOf(a[Len(a)])

RECURSIVE Canon(_, _)
\* the value a * 2^exp with an odd significand
Canon(a, exp) ==
  IF a = <<>> THEN NumberZero
  ELSE IF Head(a) = 0 THEN Canon(Tail(a), exp + DigitBits)
  ELSE IF Head(a) % 2 = 0 THEN Canon(ShiftRight(a, 1).n, exp + 1)
  ELSE [m |-> a, exp |-> exp]

\* round the exact value digits * 2^exp (plus a nonzero rest below its last
\* binary digit when sticky) to 53 significant binary digits, to nearest,
\* ties to even
Round(digits, exp, sticky) ==
  LET a == BigTrim(digits)
      drop == BitLength(a) - DoublePrecision
  IN IF drop <= 0 THEN Canon(a, exp)
     ELSE LET upper == ShiftRight(a, drop - 1)
              keep == ShiftRight(upper.n, 1).n
              more == sticky \/ upper.sticky
              up == Head(upper.n) % 2 = 1 /\ (more \/ Head(keep) % 2 = 1)
          IN Canon(IF up THEN BigAdd(keep, <<1>>, 0) ELSE keep, exp + drop)

\* the significand of x at the scale 2^e, e <= x.exp
Align(x, e) == ShiftLeft(x.m, x.exp - e)

\* Number(n) of a decimal integer string
NumberOfNat(n) == Round(BigOfNat(n), 0, FALSE)

\* x + y
NumberAdd(x, y) ==
  LET e == Min(x.exp, y.exp) IN Round(BigAdd(Align(x, e), Align(y, e), 0), e, FALSE)

\* x < y
NumberLess(x, y) ==
  LET e == Min(x.exp, y.exp) IN BigLess(Align(x, e), Align(y, e))

\* x - y, for x >= y
NumberSub(x, y) ==
  LET e == Min(x.exp, y.exp) IN Round(BigSub(Align(x, e), Align(y, e), 0), e, FALSE)

\* x * y
NumberMul(x, y) == Round(BigMul(x.m, y.m), x.exp + y.exp, FALSE)

\* x * y without the rounding
ExactMul(x, y) == Canon(BigTrim(BigMul(x.m, y.m)), x.exp + y.exp)

\* x / d for an integer d whose odd part is below Base: the quotient is
\* carried to 2 * 53 binary digits beyond x before it is rounded
NumberDiv(x, d) ==
  LET guard == 2 * DoublePrecision
      p == BigDivSmall(ShiftLeft(x.m, guard), OddPart(d))
  IN Round(p.q, x.exp - guard - TwoPart(d), p.r # 0)

\* Math.floor(x), as an integer
MathFloor(x) ==
  IF x.exp >= 0 THEN NatOfBig(ShiftLeft(x.m, x.exp))
  ELSE NatOfBig(ShiftRight(x.m, 0 - x.exp).n)

\* parseFloat of a decimal with two places, given in hundredths
ParseFloat(hundredths) == NumberDiv(NumberOfNat(hundredths), 100)

\* one account's amounts as numbers: its balance, the ledger amounts of its
\* completed deposits (credits) and of its pending or completed withdrawals
\* (debits), and its latest withdrawal with the ledger entries that reference
\* it
NoWithdrawal ==
  [status |-> "none", requested |-> 0, kes_amount |-> NumberZero,
   usdt_amount |-> NumberZero, tx_hash |-> NULL, failure_reason |-> NULL,
   amountInSun |-> 0, entries |-> <<>>]

IdleAcct ==
  [balance_kes |-> NumberZero, steps |-> 0, credits |-> <<>>, debits |-> <<>>,
   withdrawal |-> NoWithdrawal]

\* no sweepUserWallet call under way (privateKey: the call holds the
\* private key of the address)
NoCall ==
  [pc |-> "none", userId |-> 0, from |-> NULL, amount |-> NumberZero,
   trxBalance |-> NumberZero, privateKey |-> FALSE]

\* the results of a sweepAll that has not got to them yet
NoResults == [pending |-> TRUE]

\* no sweepAll and no admin sweepUser under way, nothing submitted so far.
\* all: the sweepAll run (users still to query, walletsToSweep, the loop
\* index i, the accounts sweepUserWallet was called for, the call under way,
\* the results object);
\* one: the admin sweepUser request; submitted: every transfer handed to the
\* token contract by a sweep, with the balances the sweep had queried
IdleSweep ==
  [runs |-> 0, submitted |-> <<>>,
   all |-> [pc |-> "idle", todo |-> <<>>, wallets |-> <<>>, i |-> 0,
            attempts |-> <<>>, call |-> NoCall, results |-> NoResults],
   one |-> [pc |-> "idle", userId |-> 0, call |-> NoCall]]

\* process.env.HD_MASTER_MNEMONIC: a valid BIP39 mnemonic, a string that is
\* none, or not set; DEPOSIT_MONITOR_BATCH_SIZE as parseInt reads it, 0 when
\* it is not set or not a number
Mnemonics == {"valid", "invalid", "unset"}
ValidEnv == [HD_MASTER_MNEMONIC |-> "valid", DEPOSIT_MONITOR_BATCH_SIZE |-> 0]

\* hdWalletService.getMasterMnemonic throws
GetMasterMnemonicThrows == env.HD_MASTER_MNEMONIC # "valid"

\* runMonitorCycle not under way
\* (startActive is the list of active accounts when the cycle started)
IdleCycle ==
  [pc |-> "idle", total |-> 0, offset |-> 0, batch |-> <<>>, polled |-> <<>>,
   startActive |-> <<>>]

\* the deposit monitor before start(): isRunning = false, pollInterval =
\* null (timer stands for pollInterval !== null), no cycle under way;
\* intervals counts the interval timers that were set and not cleared;
\* started says that start() was called, noop which of start() and stop()
\* last returned at its first check, exited is set by process.exit, and
\* lastFetch is what getAddressTransactions did at the last poll of each
\* account
IdleMonitor ==
  [isRunning |-> FALSE, timer |-> FALSE, intervals |-> 0, started |-> FALSE,
   noop |-> "none", exited |-> FALSE,
   cycle |-> [p \in Pollers |-> IdleCycle],
   lastFetch |-> [u \in UserIds |-> "none"]]

\* the tables after initializeDatabase, with two accounts registered;
\* active[u] is the is_active column of account u
InitTables(active) ==
  /\ acct = IdleAcct
  /\ monitor = IdleMonitor
  /\ users = [u \in UserIds |->
               [balance_kes |-> 0, tron_address |-> AddressOf(u),
                is_active |-> active[u],
                derivation_index |-> u - 1, phone |-> Phones[u],
                username |-> Usernames[u]]]
  /\ wallet_config = [next_derivation_index |-> Cardinality(UserIds)]
  /\ register = [r \in Reqs |-> IdleRegister]
  /\ sweeps = <<>>
  /\ sweep = IdleSweep
  /\ deposits = <<>>
  /\ processed_tx_hashes = {}
  /\ transactions = <<>>
  /\ withdrawals = <<>>
  /\ sent = <<>>
  /\ poll = [p \in Pollers |-> IdlePoll]
  /\ verify = [r \in Reqs |-> IdleVerify]
  /\ wreq = [w \in WReqs |-> IdleWreq]
  /\ response = NoResponse

\* the tables after accounts 1 and 2 registered (derivation indices 0 and 1),
\* both active
InitDb == InitTables([u \in UserIds |-> TRUE]) /\ env = ValidEnv

\* the master wallet as the provider reports it: token balance and TRX
\* balance, both in sun
MasterConfigs ==
  [usdt : {9999999, 10000000},
   trx : {MIN_MASTER_TRX * SUN_PER_TRX - 1, MIN_MASTER_TRX * SUN_PER_TRX}]

Init ==
  /\ InitDb
  /\ wallets = NoFunds
  /\ chain \in ChainConfigs
  /\ master = [usdt |-> 10000000, trx |-> MIN_MASTER_TRX * SUN_PER_TRX]

\* account 1 is about to receive 10 USDT and 5 USDT, account 2 nothing; any
\* master wallet
InitWithdraw ==
  /\ InitDb
  /\ wallets = NoFunds
  /\ chain = [h \in Hashes |-> IF h = "h1" THEN Transfer(AddressOf(1), 1000)
                                ELSE Transfer(AddressOf(1), 500)]
  /\ master \in MasterConfigs

\* concurrent requests and cycles are anonymous: a new one takes the lowest
\* free slot
LowestFree(free, r) == r \in free /\ \A q \in free : q >= r

\* (variant: the listing is taken as it comes, without the filter on tx.to)
IncomingTxUnfiltered(address) == SelectSeq(HashOrder, LAMBDA h : chain[h].found)

\* ------------------------------------------------- depositMonitor (poller)
\* tronService.getAddressTransactions: the listing for an address, in the
\* provider's order, then the filter tx.to === user.tron_address
IncomingTx(address) ==
  SelectSeq(HashOrder, LAMBDA h : chain[h].found /\ chain[h].to = address)

\* usdtAmount = Number(value) / 1_000_000
UsdtAmountOf(value) == value

\* (variant: the conversion adds the rate instead of multiplying by it)
KesAmountAdded(usdtAmount) == usdtAmount + USDT_TO_KES_RATE

\* kesAmount = usdtAmount * USDT_TO_KES_RATE
KesAmount(usdtAmount) == usdtAmount * USDT_TO_KES_RATE

BelowMinimum(usdtAmount) == usdtAmount < MIN_DEPOSIT
AboveMaximum(usdtAmount) == usdtAmount > MAX_DEPOSIT

RejectedRow(u, h, reason) ==
  [user_id |-> u, tx_hash |-> h, from_address |-> chain[h].from,
   to_address |-> users[u].tron_address, usdt_amount |-> UsdtAmountOf(chain[h].value),
   exchange_rate |-> USDT_TO_KES_RATE, kes_amount |-> 0, status |-> "rejected",
   failure_reason |-> reason]

\* (variant: a plain INSERT on a table without the UNIQUE constraint, so
\* every observation adds a row)
InsertRejectedAgain(u, h, reason) ==
  /\ deposits' = Append(deposits, RejectedRow(u, h, reason))
  /\ UNCHANGED <<users, processed_tx_hashes, transactions, withdrawals>>

\* INSERT OR IGNORE INTO deposits (... 'rejected' ...): ignored when a row
\* with this tx_hash exists
InsertOrIgnoreRejected(u, h, reason) ==
  /\ deposits' = IF DepositIdOf(h) = 0
                 THEN Append(deposits, RejectedRow(u, h, reason))
                 ELSE deposits
  /\ UNCHANGED <<users, processed_tx_hashes, transactions, withdrawals>>

\* (variant: deposits.tx_hash without its UNIQUE constraint)
DepositInsertNeverThrows(h) == FALSE

\* the plain INSERT INTO deposits of creditUser violates UNIQUE(tx_hash)
DepositInsertThrows(h) == DepositIdOf(h) # 0

\* processDeposit.creditUser, the committed transaction
CreditUser(u, h) ==
  LET usdtAmount == UsdtAmountOf(chain[h].value)
      kesAmount == KesAmount(usdtAmount)
      currentBalance == users[u].balance_kes
      newBalance == currentBalance + kesAmount
      depositId == Len(deposits) + 1
  IN /\ users' = [users EXCEPT ![u].balance_kes = newBalance]
     /\ deposits' = Append(deposits,
          [user_id |-> u, tx_hash |-> h, from_address |-> chain[h].from,
           to_address |-> users[u].tron_address, usdt_amount |-> usdtAmount,
           exchange_rate |-> USDT_TO_KES_RATE, kes_amount |-> kesAmount,
           status |-> "completed", failure_reason |-> NULL])
     /\ transactions' = Append(transactions,
          [user_id |-> u, type |-> "deposit", amount |-> kesAmount,
           balance_before |-> currentBalance, balance_after |-> newBalance,
           reference_id |-> depositId, reference_type |-> "deposit"])
     /\ processed_tx_hashes' = processed_tx_hashes \cup
          {[tx_hash |-> h, deposit_id |-> depositId]}
     /\ UNCHANGED withdrawals

\* (variant: the statements of creditUser run outside a transaction, so the
\* balance UPDATE that precedes the failing INSERT stays)
CreditNotRolledBack(u, h) ==
  /\ users' = [users EXCEPT ![u].balance_kes =
                 @ + UsdtAmountOf(chain[h].value) * USDT_TO_KES_RATE]
  /\ UNCHANGED <<deposits, processed_tx_hashes, transactions, withdrawals>>

\* creditUser rolled back by better-sqlite3 when the INSERT throws after the
\* balance UPDATE
CreditRolledBack(u, h) == UNCHANGED db

\* processDeposit(tx, user), its effect on the database
ProcessDeposit(u, h) ==
  LET usdtAmount == UsdtAmountOf(chain[h].value) IN
  IF BelowMinimum(usdtAmount) THEN InsertOrIgnoreRejected(u, h, "Amount below minimum")
  ELSE IF AboveMaximum(usdtAmount) THEN InsertOrIgnoreRejected(u, h, "Amount above maximum")
  ELSE IF Processed(h) THEN UNCHANGED db
  ELSE IF DepositInsertThrows(h) THEN CreditRolledBack(u, h)
  ELSE CreditUser(u, h)

\* processDeposit throws (the exception leaves the for loop of checkUserDeposits)
ProcessDepositThrows(h) ==
  LET usdtAmount == UsdtAmountOf(chain[h].value) IN
  /\ ~BelowMinimum(usdtAmount)
  /\ ~AboveMaximum(usdtAmount)
  /\ ~Processed(h)
  /\ DepositInsertThrows(h)

\* checkUserDeposits reaches user u and receives the listing of its address;
\* a provider error is returned as [] by getAddressTransactions (a poll on
\* its own, in a slot that no cycle of the monitor below holds)
PollFetchAnswer(p, u, ok) ==
  /\ monitor.cycle[p].pc = "idle"
  /\ LowestFree({q \in Pollers : poll[q].txs = <<>>}, p)
  /\ users[u].is_active
  /\ poll' = [poll EXCEPT ![p] =
                IF ok /\ IncomingTx(users[u].tron_address) # <<>>
                THEN [user |-> u, txs |-> IncomingTx(users[u].tron_address)]
                ELSE IdlePoll]
  /\ UNCHANGED <<db, chain, master, sent, verify, wreq, acct,
                 registration, consolidation, runtime>>
  /\ response' = NoResponse

PollFetch(p, u) == \E ok \in BOOLEAN : PollFetchAnswer(p, u, ok)

\* one iteration of `for (const tx of incomingTx)`: the marker check and
\* processDeposit run without an await in between
PollStep(p) ==
  /\ monitor.cycle[p].pc = "idle"
  /\ poll[p].txs # <<>>
  /\ LET u == poll[p].user
         h == Head(poll[p].txs)
         rest == IF ~Processed(h) /\ ProcessDepositThrows(h)
                 THEN <<>> ELSE Tail(poll[p].txs)
     IN /\ IF Processed(h) THEN UNCHANGED db ELSE ProcessDeposit(u, h)
        /\ poll' = [poll EXCEPT ![p] =
                     IF rest = <<>> THEN IdlePoll ELSE [user |-> u, txs |-> rest]]
  /\ UNCHANGED <<chain, master, sent, verify, wreq, acct,
                 registration, consolidation, runtime>>
  /\ response' = NoResponse

\* ------------------------------------- depositController.verifyDeposit
Respond(txId, status, message) ==
  response' = [status |-> status, message |-> message, txId |-> txId]

\* (variant: the duplicate check compares with the wrong status)
ExistingPending(existing) ==
  existing # 0 /\ deposits[existing].status = "pending"

\* existingDeposit.status === 'completed' / 'verifying' (lines 75-89)
ExistingCompleted(existing) ==
  existing # 0 /\ deposits[existing].status = "completed"

ExistingVerifying(existing) ==
  existing # 0 /\ deposits[existing].status = "verifying"

\* lines 57-105: the duplicate check on the deposits table and the
\* `verifying` record, up to the await of verifyUsdtDeposit
VerifyBegin(r, u, h) ==
  /\ LowestFree({q \in Reqs : verify[q].pc = "idle"}, r)
  /\ LET existing == DepositIdOf(h) IN
     IF ExistingCompleted(existing)
     THEN /\ Respond(h, 400, "This transaction has already been processed")
          /\ UNCHANGED <<db, verify>>
     ELSE IF ExistingVerifying(existing)
     THEN /\ Respond(h, 400, "This transaction is currently being verified")
          /\ UNCHANGED <<db, verify>>
     ELSE /\ IF existing # 0
             THEN deposits' = [deposits EXCEPT ![existing].status = "verifying"]
             ELSE deposits' = Append(deposits,
                    [user_id |-> u, tx_hash |-> h, from_address |-> NULL,
                     to_address |-> NULL, usdt_amount |-> 0,
                     exchange_rate |-> USDT_TO_KES_RATE, kes_amount |-> 0,
                     status |-> "verifying", failure_reason |-> NULL])
          /\ verify' = [verify EXCEPT ![r] =
               [pc |-> "awaiting", userId |-> u, txId |-> h,
                depositId |-> IF existing # 0 THEN existing ELSE Len(deposits) + 1]]
          /\ UNCHANGED <<users, processed_tx_hashes, transactions, withdrawals>>
          /\ response' = NoResponse
  /\ UNCHANGED <<chain, master, sent, poll, wreq, acct,
                 registration, consolidation, runtime>>

\* UPDATE deposits SET status = ?, failure_reason = ? [, usdt_amount = ?]
MarkDeposit(depositId, status, reason, usdtAmount) ==
  /\ deposits' = [deposits EXCEPT ![depositId].status = status,
                                  ![depositId].failure_reason = reason,
                                  ![depositId].usdt_amount = usdtAmount]
  /\ UNCHANGED <<users, processed_tx_hashes, transactions, withdrawals>>

\* verifyDeposit.creditUser (lines 152-193)
VerifyCreditUser(userId, txId, depositId) ==
  LET usdtAmount == UsdtAmountOf(chain[txId].value)
      kesAmount == KesAmount(usdtAmount)
      currentBalance == users[userId].balance_kes
      newBalance == currentBalance + kesAmount
  IN /\ users' = [users EXCEPT ![userId].balance_kes = newBalance]
     /\ deposits' = [deposits EXCEPT ![depositId] =
          [@ EXCEPT !.status = "completed", !.usdt_amount = usdtAmount,
                    !.kes_amount = kesAmount, !.exchange_rate = USDT_TO_KES_RATE,
                    !.from_address = chain[txId].from,
                    !.to_address = chain[txId].to]]
     /\ transactions' = Append(transactions,
          [user_id |-> userId, type |-> "deposit", amount |-> kesAmount,
           balance_before |-> currentBalance, balance_after |-> newBalance,
           reference_id |-> depositId, reference_type |-> "deposit"])
     /\ processed_tx_hashes' =
          IF Processed(txId) THEN processed_tx_hashes
          ELSE processed_tx_hashes \cup {[tx_hash |-> txId, deposit_id |-> depositId]}
     /\ UNCHANGED withdrawals

\* tronService.getTransactionByHash: throws on a provider error, returns
\* null when the hash has no USDT Transfer event, else the transfer
GetTransactionByHash(txHash, providerOk) ==
  IF ~providerOk THEN "throw"
  ELSE IF ~chain[txHash].found THEN "null"
  ELSE "tx"

\* lines 108-215: verifyUsdtDeposit has returned or thrown
VerifyFinish(r) ==
  /\ verify[r].pc = "awaiting"
  /\ LET userId == verify[r].userId
         txId == verify[r].txId
         depositId == verify[r].depositId
         usdtAmount == UsdtAmountOf(chain[txId].value)
     IN \E providerOk \in BOOLEAN :
        LET answer == GetTransactionByHash(txId, providerOk) IN
        IF answer = "throw"
        THEN /\ Respond(txId, 500, "Failed to process deposit. Please try again later.")
             /\ UNCHANGED db
        ELSE IF answer = "null"
        THEN /\ MarkDeposit(depositId, "failed",
                            "Transaction not found or not a valid USDT transfer",
                            deposits[depositId].usdt_amount)
             /\ Respond(txId, 400, "Transaction not found or not a valid USDT transfer")
        ELSE IF chain[txId].to # users[userId].tron_address
        THEN /\ MarkDeposit(depositId, "failed",
                            "Transaction was not sent to your deposit address",
                            deposits[depositId].usdt_amount)
             /\ Respond(txId, 400, "Transaction was not sent to your deposit address")
        ELSE IF BelowMinimum(usdtAmount)
        THEN /\ MarkDeposit(depositId, "rejected", "Amount below minimum", usdtAmount)
             /\ Respond(txId, 400, "Deposit amount is below minimum")
        ELSE IF AboveMaximum(usdtAmount)
        THEN /\ MarkDeposit(depositId, "rejected", "Amount above maximum", usdtAmount)
             /\ Respond(txId, 400, "Deposit amount exceeds maximum")
        ELSE /\ VerifyCreditUser(userId, txId, depositId)
             /\ Respond(txId, 200, "Deposit successful!")
  /\ verify' = [verify EXCEPT ![r] = IdleVerify]
  /\ UNCHANGED <<chain, master, sent, poll, wreq, acct,
                 registration, consolidation, runtime>>

\* ---------------------------------------------------- withdrawalService
\* a destination address, as far as sendUsdt looks at it
ValidDestination == [first |-> "T", length |-> TRON_ADDRESS_LENGTH]
ShortDestination == [first |-> "T", length |-> TRON_ADDRESS_LENGTH - 1]
Destinations == {ValidDestination, ShortDestination}

\* ledger amounts a caller may ask for (hundredths of a KES): just below the
\* minimum, 200 KES, 1300 KES (10 USDT), just above the maximum
WithdrawAmounts ==
  {MIN_WITHDRAWAL_USDT * USDT_TO_KES_RATE - 1, 20000, 130000,
   MAX_WITHDRAWAL_USDT * USDT_TO_KES_RATE + 1}

\* usdtAmount = kesAmount / USDT_TO_KES_RATE, an exact quotient (hundredths
\* of a USDT)
UsdtOfKes(kesAmount) == [num |-> kesAmount, den |-> USDT_TO_KES_RATE]

QuotientLess(q, n) == q.num < n * q.den
QuotientGreater(q, n) == q.num > n * q.den

\* amountInSun = Math.floor(usdtAmount * 1_000_000)
AmountInSun(usdtAmount) ==
  (usdtAmount.num \div usdtAmount.den) * SUN_PER_UNIT
    + ((usdtAmount.num % usdtAmount.den) * SUN_PER_UNIT) \div usdtAmount.den

\* masterBalance < usdtAmount, masterBalance = Number(balance) / 1_000_000
MasterBalanceBelow(balanceSun, usdtAmount) ==
  IF ((usdtAmount.num % usdtAmount.den) * SUN_PER_UNIT) % usdtAmount.den = 0
  THEN balanceSun < AmountInSun(usdtAmount)
  ELSE balanceSun <= AmountInSun(usdtAmount)

WithdrawRespond(status, message) ==
  response' = [status |-> status, message |-> message, txId |-> NULL]

\* (variant: the transaction debits without comparing the amount with the
\* balance)
WithdrawalErrorUnchecked(u, kesAmount) ==
  IF kesAmount < MIN_WITHDRAWAL_USDT * USDT_TO_KES_RATE THEN "Minimum withdrawal"
  ELSE IF kesAmount > MAX_WITHDRAWAL_USDT * USDT_TO_KES_RATE THEN "Maximum withdrawal"
  ELSE IF u \notin DOMAIN users THEN "User not found"
  ELSE NULL

\* the error processWithdrawal throws before its transaction commits
\* (lines 130-164), NULL when there is none
WithdrawalError(u, kesAmount) ==
  IF kesAmount < MIN_WITHDRAWAL_USDT * USDT_TO_KES_RATE THEN "Minimum withdrawal"
  ELSE IF kesAmount > MAX_WITHDRAWAL_USDT * USDT_TO_KES_RATE THEN "Maximum withdrawal"
  ELSE IF QuotientLess(UsdtOfKes(kesAmount), MIN_WITHDRAWAL_USDT) THEN "Minimum withdrawal"
  ELSE IF QuotientGreater(UsdtOfKes(kesAmount), MAX_WITHDRAWAL_USDT) THEN "Maximum withdrawal"
  ELSE IF u \notin DOMAIN users THEN "User not found"
  ELSE IF users[u].balance_kes < kesAmount THEN "Insufficient balance"
  ELSE NULL

\* (variant: the pending record is created and the transfer requested before
\* the debit and its ledger entry are written)
RecordWithoutDebit(u, toAddress, kesAmount) ==
  /\ withdrawals' = Append(withdrawals,
       [user_id |-> u, to_address |-> toAddress, kes_amount |-> kesAmount,
        usdt_amount |-> UsdtOfKes(kesAmount), exchange_rate |-> USDT_TO_KES_RATE,
        status |-> "pending", tx_hash |-> NULL, failure_reason |-> NULL])
  /\ UNCHANGED <<users, transactions, deposits, processed_tx_hashes>>

\* processWithdrawalTx (lines 152-201), the committed transaction
ProcessWithdrawalTx(u, toAddress, kesAmount) ==
  LET currentBalance == users[u].balance_kes
      newBalance == currentBalance - kesAmount
      withdrawalId == Len(withdrawals) + 1
  IN /\ users' = [users EXCEPT ![u].balance_kes = newBalance]
     /\ withdrawals' = Append(withdrawals,
          [user_id |-> u, to_address |-> toAddress, kes_amount |-> kesAmount,
           usdt_amount |-> UsdtOfKes(kesAmount), exchange_rate |-> USDT_TO_KES_RATE,
           status |-> "pending", tx_hash |-> NULL, failure_reason |-> NULL])
     /\ transactions' = Append(transactions,
          [user_id |-> u, type |-> "withdrawal", amount |-> kesAmount,
           balance_before |-> currentBalance, balance_after |-> newBalance,
           reference_id |-> withdrawalId, reference_type |-> "withdrawal"])
     /\ UNCHANGED <<deposits, processed_tx_hashes>>

\* processWithdrawal up to the await of sendUsdt (lines 129-207)
WithdrawBegin(w, u, toAddress, kesAmount) ==
  /\ LowestFree({q \in WReqs : wreq[q].pc = "idle"}, w)
  /\ Len(withdrawals) < MaxWithdrawals
  /\ IF WithdrawalError(u, kesAmount) # NULL
     THEN /\ WithdrawRespond(400, WithdrawalError(u, kesAmount))
          /\ UNCHANGED <<db, wreq>>
     ELSE /\ ProcessWithdrawalTx(u, toAddress, kesAmount)
          /\ wreq' = [wreq EXCEPT ![w] =
               [pc |-> "checking", userId |-> u,
                withdrawalId |-> Len(withdrawals) + 1]]
          /\ response' = NoResponse
  /\ UNCHANGED <<chain, master, sent, poll, verify, acct,
                 registration, consolidation, runtime>>

\* (variant: the compensation subtracts the amount once more)
RevertTxSubtracts(w, message) ==
  LET u == wreq[w].userId
      withdrawalId == wreq[w].withdrawalId
      kesAmount == withdrawals[withdrawalId].kes_amount
      currentBalance == users[u].balance_kes
      revertedBalance == currentBalance - kesAmount
  IN /\ users' = [users EXCEPT ![u].balance_kes = revertedBalance]
     /\ withdrawals' = [withdrawals EXCEPT ![withdrawalId].status = "failed",
                                           ![withdrawalId].failure_reason = message]
     /\ transactions' = Append(transactions,
          [user_id |-> u, type |-> "refund", amount |-> kesAmount,
           balance_before |-> currentBalance, balance_after |-> revertedBalance,
           reference_id |-> withdrawalId, reference_type |-> "withdrawal"])
     /\ UNCHANGED <<deposits, processed_tx_hashes>>
     /\ WithdrawRespond(400, message)
     /\ wreq' = [wreq EXCEPT ![w] = IdleWreq]

\* (variant: the compensation deletes the 'withdrawal' ledger entry instead
\* of appending a 'refund' entry)
RevertTxDeletesEntry(w, message) ==
  LET u == wreq[w].userId
      withdrawalId == wreq[w].withdrawalId
      kesAmount == withdrawals[withdrawalId].kes_amount
  IN /\ users' = [users EXCEPT ![u].balance_kes = @ + kesAmount]
     /\ withdrawals' = [withdrawals EXCEPT ![withdrawalId].status = "failed",
                                           ![withdrawalId].failure_reason = message]
     /\ transactions' = SelectSeq(transactions,
          LAMBDA e : ~(e.reference_type = "withdrawal" /\ e.reference_id = withdrawalId))
     /\ UNCHANGED <<deposits, processed_tx_hashes>>
     /\ WithdrawRespond(400, message)
     /\ wreq' = [wreq EXCEPT ![w] = IdleWreq]

\* (variant: the compensation starts from the balance the debit left, read
\* before the await, instead of reading the balance again)
RevertTxStale(w, message) ==
  LET u == wreq[w].userId
      withdrawalId == wreq[w].withdrawalId
      kesAmount == withdrawals[withdrawalId].kes_amount
      debit == CHOOSE j \in Indices(transactions) :
                 /\ transactions[j].type = "withdrawal"
                 /\ transactions[j].reference_id = withdrawalId
      currentBalance == transactions[debit].balance_after
      revertedBalance == currentBalance + kesAmount
  IN /\ users' = [users EXCEPT ![u].balance_kes = revertedBalance]
     /\ withdrawals' = [withdrawals EXCEPT ![withdrawalId].status = "failed",
                                           ![withdrawalId].failure_reason = message]
     /\ transactions' = Append(transactions,
          [user_id |-> u, type |-> "refund", amount |-> kesAmount,
           balance_before |-> currentBalance, balance_after |-> revertedBalance,
           reference_id |-> withdrawalId, reference_type |-> "withdrawal"])
     /\ UNCHANGED <<deposits, processed_tx_hashes>>
     /\ WithdrawRespond(400, message)
     /\ wreq' = [wreq EXCEPT ![w] = IdleWreq]

\* revertTx (lines 227-253) and the rethrown error
RevertTx(w, message) ==
  LET u == wreq[w].userId
      withdrawalId == wreq[w].withdrawalId
      kesAmount == withdrawals[withdrawalId].kes_amount
      currentBalance == users[u].balance_kes
      revertedBalance == currentBalance + kesAmount
  IN /\ users' = [users EXCEPT ![u].balance_kes = revertedBalance]
     /\ withdrawals' = [withdrawals EXCEPT ![withdrawalId].status = "failed",
                                           ![withdrawalId].failure_reason = message]
     /\ transactions' = Append(transactions,
          [user_id |-> u, type |-> "refund", amount |-> kesAmount,
           balance_before |-> currentBalance, balance_after |-> revertedBalance,
           reference_id |-> withdrawalId, reference_type |-> "withdrawal"])
     /\ UNCHANGED <<deposits, processed_tx_hashes>>
     /\ WithdrawRespond(400, message)
     /\ wreq' = [wreq EXCEPT ![w] = IdleWreq]

\* revertTx throws (a failed write rolls the transaction back): the error
\* leaves processWithdrawal from inside the catch block (line 253)
RevertTxThrows(w) ==
  /\ UNCHANGED db
  /\ WithdrawRespond(400, "database error")
  /\ wreq' = [wreq EXCEPT ![w] = IdleWreq]

\* the catch block (lines 225-256): revertTx commits or throws
Catch(w, message) ==
  \E reverted \in BOOLEAN :
    IF reverted THEN RevertTx(w, message) ELSE RevertTxThrows(w)

\* the error sendUsdt throws before it submits (lines 75-90), NULL when none;
\* getMasterWalletBalance throws and getMasterTrxBalance returns 0 on a
\* provider error
SendUsdtError(toAddress, usdtAmount, providerOk) ==
  IF toAddress.first # "T" \/ toAddress.length # TRON_ADDRESS_LENGTH
  THEN "Invalid Tron address format"
  ELSE IF ~providerOk THEN "Failed to check master wallet balance"
  ELSE IF MasterBalanceBelow(master.usdt, usdtAmount)
  THEN "Insufficient master wallet balance"
  ELSE IF master.trx < MIN_MASTER_TRX * SUN_PER_TRX THEN "Insufficient TRX for gas"
  ELSE NULL

\* sendUsdt up to the await of transfer(...).send (lines 73-102)
WithdrawCheck(w) ==
  /\ wreq[w].pc = "checking"
  /\ LET wd == withdrawals[wreq[w].withdrawalId] IN
     \E providerOk \in BOOLEAN :
       LET error == SendUsdtError(wd.to_address, wd.usdt_amount, providerOk) IN
       IF error # NULL
       THEN Catch(w, error)
       ELSE /\ wreq' = [wreq EXCEPT ![w].pc = "sending"]
            /\ UNCHANGED db
            /\ response' = NoResponse
  /\ UNCHANGED <<chain, master, sent, poll, verify, acct,
                 registration, consolidation, runtime>>

\* (variant: the UPDATE sets the status and forgets the transaction hash)
CompleteWithoutHash(w, txHash) ==
  LET withdrawalId == wreq[w].withdrawalId IN
  /\ withdrawals' = [withdrawals EXCEPT ![withdrawalId].status = "completed"]
  /\ UNCHANGED <<users, deposits, processed_tx_hashes, transactions>>
  /\ WithdrawRespond(200, "Withdrawal successful!")
  /\ wreq' = [wreq EXCEPT ![w] = IdleWreq]

\* the transfer was accepted: the rest of the try block (lines 107-224)
CompleteWithdrawal(w, txHash) ==
  LET withdrawalId == wreq[w].withdrawalId IN
  /\ withdrawals' = [withdrawals EXCEPT ![withdrawalId].status = "completed",
                                        ![withdrawalId].tx_hash = txHash]
  /\ UNCHANGED <<users, deposits, processed_tx_hashes, transactions>>
  /\ WithdrawRespond(200, "Withdrawal successful!")
  /\ wreq' = [wreq EXCEPT ![w] = IdleWreq]

\* the transaction ids the provider returns, in order: each one is new
TransactionIds == <<"w1", "w2", "w3", "w4">>

\* transfer(toAddress, amountInSun).send returns a transaction id or throws;
\* after a transfer that returned, the UPDATE that marks the withdrawal
\* completed runs, or throws into the same catch block
WithdrawSend(w) ==
  /\ wreq[w].pc = "sending"
  /\ LET wd == withdrawals[wreq[w].withdrawalId]
         amountInSun == AmountInSun(wd.usdt_amount)
         txHash == TransactionIds[Len(sent) + 1]
     IN \E accepted, recorded \in BOOLEAN :
        IF accepted
        THEN /\ sent' = Append(sent, [to |-> wd.to_address, amount |-> amountInSun,
                                      txHash |-> txHash,
                                      withdrawalId |-> wreq[w].withdrawalId])
             /\ master' = [master EXCEPT !.usdt =
                             IF @ >= amountInSun THEN @ - amountInSun ELSE @]
             /\ IF recorded THEN CompleteWithdrawal(w, txHash)
                ELSE Catch(w, "database error")
        ELSE /\ recorded
             /\ Catch(w, "transfer failed")
             /\ UNCHANGED <<sent, master>>
  /\ UNCHANGED <<chain, poll, verify, acct,
                 registration, consolidation, runtime>>

WithdrawNext ==
  \/ \E w \in WReqs, u \in UserIds \cup {UnknownUserId},
          a \in Destinations, k \in WithdrawAmounts :
       WithdrawBegin(w, u, a, k)
  \/ \E w \in WReqs : WithdrawCheck(w)
  \/ \E w \in WReqs : WithdrawSend(w)

\* ------------------------------------------------ authController.register
\* INSERT INTO users violates UNIQUE(phone), UNIQUE(username),
\* UNIQUE(tron_address) or UNIQUE(derivation_index)
UserInsertThrows(phone, username, address, derivationIndex) ==
  \E id \in Indices(users) :
    \/ users[id].phone = phone
    \/ users[id].username = username
    \/ users[id].tron_address = address
    \/ users[id].derivation_index = derivationIndex

\* (variant: the row is inserted with index 0 and its address, whatever the
\* counter holds)
CreateUserFirstIndex(phone, username) ==
  /\ users' = Append(users,
       [balance_kes |-> 0, tron_address |-> DeriveAddress(0), is_active |-> TRUE,
        derivation_index |-> 0, phone |-> phone, username |-> username])
  /\ wallet_config' = [wallet_config EXCEPT !.next_derivation_index = @ + 1]

\* (variant: the transaction inserts the account and leaves the counter as
\* it was)
CreateUserNoIncrement(phone, username) ==
  /\ users' = Append(users,
       [balance_kes |-> 0,
        tron_address |-> DeriveAddress(wallet_config.next_derivation_index),
        is_active |-> TRUE,
        derivation_index |-> wallet_config.next_derivation_index,
        phone |-> phone, username |-> username])
  /\ UNCHANGED wallet_config

\* register.createUser (lines 32-54), the committed transaction
CreateUser(phone, username) ==
  LET derivationIndex == wallet_config.next_derivation_index
      wallet == DeriveAddress(derivationIndex)
  IN /\ users' = Append(users,
          [balance_kes |-> 0, tron_address |-> wallet, is_active |-> TRUE,
           derivation_index |-> derivationIndex, phone |-> phone,
           username |-> username])
     /\ wallet_config' = [wallet_config EXCEPT
                            !.next_derivation_index = derivationIndex + 1]

\* lines 12-29: the check for an existing phone or username, up to the await
\* of bcrypt.hash
RegisterBegin(r, phone, username) ==
  /\ LowestFree({q \in Reqs : register[q].pc = "idle"}, r)
  /\ Len(users) < MaxUsers
  /\ IF \E id \in Indices(users) :
          users[id].phone = phone \/ users[id].username = username
     THEN /\ response' = [status |-> 400, txId |-> NULL,
                          message |-> "Phone or username already exists"]
          /\ UNCHANGED register
     ELSE /\ register' = [register EXCEPT ![r] =
               [pc |-> "hashing", phone |-> phone, username |-> username]]
          /\ response' = NoResponse
  /\ UNCHANGED <<db, wallet_config, chain, master, sent, poll, verify, wreq, acct,
                 consolidation, runtime>>

\* (variant: the counter is advanced before the statement that throws, and
\* the increment is kept)
CreateUserThrowsAfterIncrement ==
  /\ users' = users
  /\ wallet_config' = [wallet_config EXCEPT !.next_derivation_index = @ + 1]

\* bcrypt.hash, deriveAddress or the INSERT throws: nothing was written
\* before the await, and db.transaction rolls createUser back
CreateUserThrows == UNCHANGED <<users, wallet_config>>

\* lines 29-81: bcrypt.hash has returned or thrown, then createUser, in
\* which deriveAddress throws without a valid mnemonic and the INSERT throws
\* on a duplicate; every error is answered 500
RegisterFinish(r) ==
  /\ register[r].pc = "hashing"
  /\ \E hashed \in BOOLEAN :
       LET phone == register[r].phone
           username == register[r].username
           derivationIndex == wallet_config.next_derivation_index
       IN IF /\ hashed
             /\ ~GetMasterMnemonicThrows
             /\ ~UserInsertThrows(phone, username,
                                  DeriveAddress(derivationIndex), derivationIndex)
          THEN /\ CreateUser(phone, username)
               /\ response' = [status |-> 201, txId |-> NULL,
                               message |-> "Account created successfully"]
          ELSE /\ CreateUserThrows
               /\ response' = [status |-> 500, txId |-> NULL,
                               message |-> "Internal server error"]
  /\ register' = [register EXCEPT ![r] = IdleRegister]
  /\ UNCHANGED <<deposits, processed_tx_hashes, transactions, withdrawals, chain,
                 master, sent, poll, verify, wreq, acct, consolidation, runtime>>

RegisterNext ==
  \/ \E r \in Reqs, i \in 3..Len(Phones), j \in 3..Len(Usernames) :
       RegisterBegin(r, Phones[i], Usernames[j])
  \/ \E r \in Reqs, i \in 1..2 : RegisterBegin(r, Phones[i], Usernames[3])
  \/ \E r \in Reqs : RegisterFinish(r)

\* accounts 1 and 2 exist, nothing on the chain; the process runs with any
\* setting of the mnemonic
InitRegister ==
  /\ InitTables([u \in UserIds |-> TRUE])
  /\ env \in [HD_MASTER_MNEMONIC : Mnemonics, DEPOSIT_MONITOR_BATCH_SIZE : {0}]
  /\ wallets = NoFunds
  /\ chain = [h \in Hashes |-> NoTransfer]
  /\ master = [usdt |-> 0, trx |-> 0]

SpecRegister == InitRegister /\ [][RegisterNext]_vars

\* ------------------------------------------------- consolidationService
\* MIN_SWEEP_AMOUNT = parseFloat(process.env.MIN_SWEEP_USDT) || 1, in USDT
MIN_SWEEP_AMOUNT == 1
DEFAULT_BATCH_SIZE == 50
\* the TRX a wallet must hold for a sweep (trxBalance < 10, trxBalance >= 10)
MIN_SWEEP_TRX == 10
\* adminController.sweepUser refuses below 0.01 USDT: 1 hundredth
MIN_ADMIN_SWEEP_HUNDREDTHS == 1
\* CONSOLIDATION_ADDRESS = process.env.DEPOSIT_ADDRESS, the master wallet
CONSOLIDATION_ADDRESS == "TMaster"

\* what the chain holds at the address of account u, in sun; the address of
\* an account registered later holds nothing
WalletOf(u) == IF u \in DOMAIN wallets THEN wallets[u] ELSE [usdt |-> 0, trx |-> 0]

\* getUsdtBalance(address): Number(balance) / 1_000_000, and 0 when the
\* provider call throws
GetUsdtBalance(u, ok) ==
  IF ok THEN NumberDiv(NumberOfNat(WalletOf(u).usdt), SUN_PER_USDT) ELSE NumberZero

\* getTrxBalance(address): balance / 1_000_000, and 0 when the provider call
\* throws
GetTrxBalance(u, ok) ==
  IF ok THEN NumberDiv(NumberOfNat(WalletOf(u).trx), SUN_PER_TRX) ELSE NumberZero

\* SELECT id ... FROM users WHERE tron_address IS NOT NULL AND is_active = 1
ActiveUserIds == SelectSeq([id \in Indices(users) |-> id],
                           LAMBDA id : users[id].is_active)

\* the results object of sweepAll when there are wallets to sweep
NewResults ==
  [success |-> TRUE, swept |-> 0, failed |-> 0, needsGas |-> 0,
   totalUsdt |-> NumberZero, details |-> <<>>]

\* what sweepAll returns when there is no wallet to sweep
NoWalletsResults ==
  [success |-> TRUE, message |-> "No wallets to sweep", swept |-> 0,
   totalUsdt |-> NumberZero]

\* results.needsGas++ and the needs_gas entry of wallet w
AddNeedsGas(results, w) ==
  [results EXCEPT !.needsGas = @ + 1,
                  !.details = Append(@, [userId |-> w.userId,
                                         address |-> w.address,
                                         status |-> "needs_gas"])]

\* the entry of wallet w after sweepUserWallet returned; txHash is the
\* transfer it submitted
AddSweepResult(results, w, success, txHash) ==
  IF success
  THEN [results EXCEPT !.swept = @ + 1,
                       !.totalUsdt = NumberAdd(@, w.usdtBalance),
                       !.details = Append(@, [userId |-> w.userId,
                                              address |-> w.address,
                                              status |-> "swept",
                                              txHash |-> txHash])]
  ELSE [results EXCEPT !.failed = @ + 1,
                       !.details = Append(@, [userId |-> w.userId,
                                              address |-> w.address,
                                              status |-> "failed"])]

\* hdWalletService.derivePrivateKey(index) throws: the mnemonic is not set
\* or not valid
DerivePrivateKeyThrows == GetMasterMnemonicThrows

\* sweepUserWallet up to its first await: the private key is derived and the
\* TRX balance asked for
StartCall(userId, fromAddress, amount) ==
  [pc |-> "gas", userId |-> userId, from |-> fromAddress, amount |-> amount,
   trxBalance |-> NumberZero, privateKey |-> TRUE]

RECURSIVE SweepLoop(_)
\* the for loop of sweepAll from wallet a.i on, up to its next await: wallets
\* without gas get their needs_gas entry, the first wallet with gas gets a
\* sweepUserWallet call, which returns a failure at once when the key
\* derivation throws; after the last wallet the results are returned
SweepLoop(a) ==
  IF a.i > Len(a.wallets) THEN [a EXCEPT !.pc = "done"]
  ELSE LET w == a.wallets[a.i]
       IN IF ~w.hasSufficientGas
          THEN SweepLoop([a EXCEPT !.i = @ + 1,
                                   !.results = AddNeedsGas(@, w)])
          ELSE IF DerivePrivateKeyThrows
          THEN [a EXCEPT !.pc = "delay", !.i = @ + 1,
                         !.attempts = Append(@, w.userId),
                         !.results = AddSweepResult(@, w, FALSE, 0)]
          ELSE [a EXCEPT !.pc = "call",
                         !.attempts = Append(@, w.userId),
                         !.call = StartCall(w.userId, w.address, w.usdtBalance)]

\* sweepAll once getWalletsToSweep has returned
AfterScan(a) ==
  IF a.wallets = <<>>
  THEN [a EXCEPT !.pc = "done", !.results = NoWalletsResults]
  ELSE SweepLoop([a EXCEPT !.i = 1, !.results = NewResults])

\* adminController.sweepAll answers 200 once the service returned
SweepAllResponse(a) ==
  IF a.pc = "done"
  THEN response' = [status |-> 200, message |-> "Swept wallets", txId |-> NULL]
  ELSE response' = NoResponse

\* POST /admin/consolidation/sweep: the active accounts are read
SweepAllBegin ==
  /\ sweep.all.pc \in {"idle", "done"}
  /\ sweep.runs < MaxSweepRuns
  /\ LET a == [IdleSweep.all EXCEPT !.pc = "scanning", !.todo = ActiveUserIds]
         b == IF a.todo = <<>> THEN AfterScan(a) ELSE a
     IN /\ sweep' = [sweep EXCEPT !.runs = @ + 1, !.all = b]
        /\ SweepAllResponse(b)
  /\ UNCHANGED <<db, chain, master, sent, poll, verify, wreq, acct,
                 registration, wallets, sweeps, runtime>>

\* getWalletsToSweep, one account: its balances are queried and it is taken
\* when its token balance reaches MIN_SWEEP_AMOUNT
SweepAllScan(okUsdt, okTrx) ==
  /\ sweep.all.pc = "scanning"
  /\ LET a == sweep.all
         u == Head(a.todo)
         usdtBalance == GetUsdtBalance(u, okUsdt)
         trxBalance == GetTrxBalance(u, okTrx)
         found ==
           IF ~NumberLess(usdtBalance, NumberOfNat(MIN_SWEEP_AMOUNT))
           THEN Append(a.wallets,
                  [userId |-> u, address |-> users[u].tron_address,
                   derivationIndex |-> users[u].derivation_index,
                   usdtBalance |-> usdtBalance, trxBalance |-> trxBalance,
                   hasSufficientGas |->
                     ~NumberLess(trxBalance, NumberOfNat(MIN_SWEEP_TRX))])
           ELSE a.wallets
         scanned == [a EXCEPT !.todo = Tail(@), !.wallets = found]
         b == IF scanned.todo = <<>> THEN AfterScan(scanned) ELSE scanned
     IN /\ sweep' = [sweep EXCEPT !.all = b]
        /\ SweepAllResponse(b)
  /\ UNCHANGED <<db, chain, master, sent, poll, verify, wreq, acct,
                 registration, wallets, sweeps, runtime>>

\* sweepAll after the delay that follows a sweepUserWallet call
SweepAllResume ==
  /\ sweep.all.pc = "delay"
  /\ LET b == SweepLoop(sweep.all)
     IN /\ sweep' = [sweep EXCEPT !.all = b]
        /\ SweepAllResponse(b)
  /\ UNCHANGED <<db, chain, master, sent, poll, verify, wreq, acct,
                 registration, wallets, sweeps, runtime>>

\* POST /admin/consolidation/sweep/:userId: the account is read by id,
\* whatever its is_active
SweepUserBegin(userId) ==
  /\ sweep.one.pc = "idle"
  /\ sweep.runs < MaxSweepRuns
  /\ IF userId \notin Indices(users)
     THEN /\ sweep' = [sweep EXCEPT !.runs = @ + 1]
          /\ response' = [status |-> 404, txId |-> NULL,
                          message |-> "User not found or has no deposit address"]
     ELSE /\ sweep' = [sweep EXCEPT !.runs = @ + 1,
                                    !.one = [@ EXCEPT !.pc = "balance",
                                                      !.userId = userId]]
          /\ response' = NoResponse
  /\ UNCHANGED <<db, chain, master, sent, poll, verify, wreq, acct,
                 registration, wallets, sweeps, runtime>>

\* sweepUser after getUsdtBalance: 400 below 0.01 USDT, else sweepUserWallet
\* is called with the balance (400 with its error when the key derivation
\* throws)
SweepUserBalance(ok) ==
  /\ sweep.one.pc = "balance"
  /\ LET u == sweep.one.userId
         usdtBalance == GetUsdtBalance(u, ok)
     IN IF NumberLess(usdtBalance, ParseFloat(MIN_ADMIN_SWEEP_HUNDREDTHS))
        THEN /\ sweep' = [sweep EXCEPT !.one = IdleSweep.one]
             /\ response' = [status |-> 400, txId |-> NULL,
                             message |-> "Insufficient USDT balance"]
        ELSE IF DerivePrivateKeyThrows
        THEN /\ sweep' = [sweep EXCEPT !.one = IdleSweep.one]
             /\ response' = [status |-> 400, txId |-> NULL,
                             message |-> "Sweep failed"]
        ELSE /\ sweep' = [sweep EXCEPT !.one =
                            [@ EXCEPT !.pc = "call",
                                      !.call = StartCall(u, users[u].tron_address,
                                                         usdtBalance)]]
             /\ response' = NoResponse
  /\ UNCHANGED <<db, chain, master, sent, poll, verify, wreq, acct,
                 registration, wallets, sweeps, runtime>>

\* (variant: a failed sweepUserWallet ends the loop of sweepAll, which
\* returns the results it has)
ReturnedRethrows(who, success, submitted) ==
  IF who = "all"
  THEN /\ sweep' = [sweep EXCEPT
                      !.submitted = submitted,
                      !.all = [@ EXCEPT !.pc = IF success THEN "delay" ELSE "done",
                                        !.call = NoCall,
                                        !.i = @ + 1,
                                        !.results = AddSweepResult(@,
                                          sweep.all.wallets[sweep.all.i], success,
                                          Len(submitted))]]
       /\ response' = NoResponse
  ELSE /\ sweep' = [sweep EXCEPT !.submitted = submitted, !.one = IdleSweep.one]
       /\ response' = [status |-> IF success THEN 200 ELSE 400, txId |-> NULL,
                       message |-> IF success THEN "Swept" ELSE "Sweep failed"]

\* what the caller of sweepUserWallet does with its result: sweepAll adds the
\* entry of the wallet and starts its delay, sweepUser answers 200 or 400
Returned(who, success, submitted) ==
  IF who = "all"
  THEN /\ sweep' = [sweep EXCEPT
                      !.submitted = submitted,
                      !.all = [@ EXCEPT !.pc = "delay", !.call = NoCall,
                                        !.i = @ + 1,
                                        !.results = AddSweepResult(@,
                                          sweep.all.wallets[sweep.all.i], success,
                                          Len(submitted))]]
       /\ response' = NoResponse
  ELSE /\ sweep' = [sweep EXCEPT !.submitted = submitted, !.one = IdleSweep.one]
       /\ response' = [status |-> IF success THEN 200 ELSE 400, txId |-> NULL,
                       message |-> IF success THEN "Swept" ELSE "Sweep failed"]

\* (variant: the transfer goes ahead whatever TRX balance was queried)
SweepCheckGasSkipped(who, ok) ==
  /\ sweep[who].pc = "call"
  /\ sweep[who].call.pc = "gas"
  /\ sweep' = [sweep EXCEPT ![who].call =
                 [@ EXCEPT !.pc = "transfer",
                           !.trxBalance = GetTrxBalance(sweep[who].call.userId, ok)]]
  /\ response' = NoResponse
  /\ UNCHANGED <<db, chain, master, sent, poll, verify, wreq, acct,
                 registration, wallets, sweeps, runtime>>

\* sweepUserWallet after getTrxBalance: below 10 TRX it returns needsTrx
\* without a transfer
SweepCheckGas(who, ok) ==
  /\ sweep[who].pc = "call"
  /\ sweep[who].call.pc = "gas"
  /\ LET call == sweep[who].call
         trxBalance == GetTrxBalance(call.userId, ok)
     IN IF NumberLess(trxBalance, NumberOfNat(MIN_SWEEP_TRX))
        THEN Returned(who, FALSE, sweep.submitted)
        ELSE /\ sweep' = [sweep EXCEPT ![who].call =
                            [call EXCEPT !.pc = "transfer",
                                         !.trxBalance = trxBalance]]
             /\ response' = NoResponse
  /\ UNCHANGED <<db, chain, master, sent, poll, verify, wreq, acct,
                 registration, wallets, sweeps, runtime>>

\* sweepUserWallet, the transfer of Math.floor(amount * 1_000_000) sun to the
\* consolidation address: the contract call throws, or the transfer is
\* submitted and the sweep recorded as completed, or the transfer is
\* submitted and the INSERT INTO sweeps throws
SweepTransfer(who, accepted, recorded) ==
  /\ sweep[who].pc = "call"
  /\ sweep[who].call.pc = "transfer"
  /\ LET call == sweep[who].call
         amountInSun == MathFloor(NumberMul(call.amount, NumberOfNat(SUN_PER_USDT)))
         tx == Len(sweep.submitted) + 1
         moved == IF amountInSun <= wallets[call.userId].usdt THEN amountInSun ELSE 0
         submitted ==
           Append(sweep.submitted,
             [by |-> who, userId |-> call.userId, from |-> call.from,
              amount |-> call.amount, amountInSun |-> amountInSun,
              trxBalance |-> call.trxBalance, tx |-> tx])
     IN IF accepted
        THEN /\ wallets' = [wallets EXCEPT ![call.userId].usdt = @ - moved]
             /\ master' = [master EXCEPT !.usdt = @ + moved]
             /\ IF recorded
                THEN /\ sweeps' = Append(sweeps,
                          [user_id |-> call.userId, from_address |-> call.from,
                           to_address |-> CONSOLIDATION_ADDRESS,
                           usdt_amount |-> call.amount, tx_hash |-> tx,
                           status |-> "completed"])
                     /\ Returned(who, TRUE, submitted)
                ELSE /\ UNCHANGED sweeps
                     /\ Returned(who, FALSE, submitted)
        ELSE /\ recorded
             /\ Returned(who, FALSE, sweep.submitted)
             /\ UNCHANGED <<wallets, master, sweeps>>
  /\ UNCHANGED <<db, chain, sent, poll, verify, wreq, acct, registration, runtime>>

\* the balances a user address may hold, in sun: 0.5, 1 and 1.000001 USDT,
\* one sun below 10 TRX and 10 TRX
WalletConfigs ==
  [usdt : {500000, 1000000, 1000001},
   trx : {MIN_SWEEP_TRX * SUN_PER_TRX - 1, MIN_SWEEP_TRX * SUN_PER_TRX}]

\* the chain outside the program: TRX arrives at a user address or is spent
\* from it
TrxMoves(u, trx) ==
  /\ trx # wallets[u].trx
  /\ wallets' = [wallets EXCEPT ![u].trx = trx]
  /\ response' = NoResponse
  /\ UNCHANGED <<db, chain, master, sent, poll, verify, wreq, acct,
                 registration, sweeps, sweep, runtime>>

SweepNext ==
  \/ SweepAllBegin
  \/ \E okUsdt, okTrx \in BOOLEAN : SweepAllScan(okUsdt, okTrx)
  \/ SweepAllResume
  \/ \E userId \in UserIds \cup {UnknownUserId} : SweepUserBegin(userId)
  \/ \E ok \in BOOLEAN : SweepUserBalance(ok)
  \/ \E who \in {"all", "one"}, ok \in BOOLEAN : SweepCheckGas(who, ok)
  \/ \E who \in {"all", "one"}, accepted, recorded \in BOOLEAN :
       SweepTransfer(who, accepted, recorded)
  \/ \E u \in UserIds, trx \in {w.trx : w \in WalletConfigs} : TrxMoves(u, trx)

\* account 1 is active, account 2 active or deactivated; the user addresses
\* hold any of the balances above
InitSweep ==
  /\ \E active2 \in BOOLEAN : InitTables([u \in UserIds |-> u = 1 \/ active2])
  /\ env \in [HD_MASTER_MNEMONIC : {"valid", "unset"},
               DEPOSIT_MONITOR_BATCH_SIZE : {0}]
  /\ wallets \in [UserIds -> WalletConfigs]
  /\ chain = [h \in Hashes |-> NoTransfer]
  /\ master = [usdt |-> 0, trx |-> MIN_MASTER_TRX * SUN_PER_TRX]

SpecSweep == InitSweep /\ [][SweepNext]_vars

\* the transfer of a sweepAll run is awaited
TransferAwaited == sweep.all.pc = "call" /\ sweep.all.call.pc = "transfer"

\* every provider call of a sweepAll run returns or throws, and its delay
\* timer fires; the last conjunct is the weak fairness of the transfer step,
\* written with the condition under which the step is enabled
SweepFairness ==
  /\ WF_vars(\E okUsdt, okTrx \in BOOLEAN : SweepAllScan(okUsdt, okTrx))
  /\ WF_vars(SweepAllResume)
  /\ WF_vars(\E ok \in BOOLEAN : SweepCheckGas("all", ok))
  /\ <>[]TransferAwaited =>
       []<><<\E accepted, recorded \in BOOLEAN :
               SweepTransfer("all", accepted, recorded)>>_vars

\* the runs of sweepAll over wallets that hold one USDT each, with or without
\* gas
InitSweepLive ==
  /\ InitSweep
  /\ \A u \in UserIds : wallets[u].usdt = SUN_PER_USDT

SpecSweepLive == InitSweepLive /\ [][SweepNext]_vars /\ SweepFairness

\* ------------------------------------------- depositMonitor (the cycles)
\* BATCH_SIZE = parseInt(process.env.DEPOSIT_MONITOR_BATCH_SIZE) || 50
BATCH_SIZE ==
  IF env.DEPOSIT_MONITOR_BATCH_SIZE = 0 THEN DEFAULT_BATCH_SIZE
  ELSE env.DEPOSIT_MONITOR_BATCH_SIZE

\* SELECT COUNT(*) FROM users WHERE tron_address IS NOT NULL
TotalUsers == Len(users)

\* SELECT id ... WHERE tron_address IS NOT NULL AND is_active = 1 LIMIT
\* BATCH_SIZE OFFSET offset
SelectBatch(offset) ==
  SubSeq(ActiveUserIds, offset + 1, Min(offset + BATCH_SIZE, Len(ActiveUserIds)))

\* (variant: start() does not look at the configuration)
ValidateConfigSkipped == [valid |-> TRUE]

\* hdWalletService.validateConfig: the error of getMasterMnemonic is caught
ValidateConfig == [valid |-> ~GetMasterMnemonicThrows]

\* runMonitorCycle after checkUserDeposits returned: offset += BATCH_SIZE,
\* then the delay when users remain, else the loop and the cycle end
AfterBatch(c) ==
  LET d == [c EXCEPT !.offset = @ + BATCH_SIZE, !.batch = <<>>]
  IN IF d.offset < d.total THEN [d EXCEPT !.pc = "delay"]
     ELSE [d EXCEPT !.pc = "idle"]

\* the condition of the while loop of runMonitorCycle and, when it holds,
\* the next batch up to the first await of checkUserDeposits
WhileLoop(c, running) ==
  IF c.offset < c.total /\ running
  THEN IF SelectBatch(c.offset) = <<>> THEN AfterBatch(c)
       ELSE [c EXCEPT !.pc = "fetching", !.batch = SelectBatch(c.offset)]
  ELSE [c EXCEPT !.pc = "idle", !.batch = <<>>]

\* (variant: an address whose listing failed ends the batch)
NextUserAborts(c, ok) ==
  LET d == [c EXCEPT !.batch = IF ok THEN Tail(@) ELSE <<>>,
                     !.polled = Append(@, Head(c.batch))]
  IN IF d.batch = <<>> THEN AfterBatch(d) ELSE [d EXCEPT !.pc = "fetching"]

\* checkUserDeposits goes on to the next user of the batch, whether the
\* listing of this one was received (ok) or not
NextUser(c, ok) ==
  LET d == [c EXCEPT !.batch = Tail(@), !.polled = Append(@, Head(c.batch))]
  IN IF d.batch = <<>> THEN AfterBatch(d) ELSE [d EXCEPT !.pc = "fetching"]

\* runMonitorCycle up to its first await: nothing when the monitor is not
\* running or there is no user
RunMonitorCycle(c, running) ==
  IF ~running \/ TotalUsers = 0 THEN c
  ELSE WhileLoop([pc |-> "idle", total |-> TotalUsers, offset |-> 0,
                  batch |-> <<>>, polled |-> <<>>,
                  startActive |-> ActiveUserIds], running)

\* what the last listing of account u did: it failed, it was received, or
\* it was received after the one before had failed
NoteFetch(last, u, ok) ==
  [last EXCEPT ![u] = IF ~ok THEN "failed"
                      ELSE IF @ \in {"failed", "retried"} THEN "retried"
                      ELSE "ok"]

FreeCycle(p) == LowestFree({q \in Pollers : monitor.cycle[q].pc = "idle"}, p)

\* (variant: start() does not look at isRunning)
AlreadyRunningIgnored == FALSE

\* `if (isRunning)` at the head of start()
AlreadyRunning == monitor.isRunning

\* depositMonitor.start(), called when the server listens
Start ==
  /\ ~monitor.exited
  /\ IF AlreadyRunning
     THEN monitor' = [monitor EXCEPT !.started = TRUE, !.noop = "start"]
     ELSE IF ~ValidateConfig.valid
     THEN monitor' = [monitor EXCEPT !.started = TRUE, !.noop = "none"]
     ELSE \E p \in Pollers :
            /\ FreeCycle(p)
            /\ monitor' = [monitor EXCEPT
                             !.started = TRUE, !.noop = "none",
                             !.isRunning = TRUE,
                             !.timer = TRUE, !.intervals = @ + 1,
                             !.cycle[p] = RunMonitorCycle(@, TRUE)]
  /\ response' = NoResponse
  /\ UNCHANGED <<db, chain, master, sent, poll, verify, wreq, acct,
                 registration, consolidation, env>>

\* the interval timer fires: runMonitorCycle, whether or not the cycle
\* before has ended
Tick(p) ==
  /\ ~monitor.exited
  /\ monitor.intervals > 0
  /\ FreeCycle(p)
  /\ monitor' = [monitor EXCEPT
                   !.cycle[p] = RunMonitorCycle(@, monitor.isRunning)]
  /\ response' = NoResponse
  /\ UNCHANGED <<db, chain, master, sent, poll, verify, wreq, acct,
                 registration, consolidation, env>>

\* tronService.getAddressTransactions for an address: the listing, or []
\* when the provider call throws or its response is malformed
GetAddressTransactions(address, answer) ==
  IF answer = "ok" THEN IncomingTx(address) ELSE <<>>

FetchAnswers == {"ok", "error", "malformed"}

\* checkUserDeposits, the listing of the next user of the batch arrives
CycleFetch(p, answer) ==
  /\ ~monitor.exited
  /\ monitor.cycle[p].pc = "fetching"
  /\ LET c == monitor.cycle[p]
         u == Head(c.batch)
         incomingTx == GetAddressTransactions(users[u].tron_address, answer)
         last == NoteFetch(monitor.lastFetch, u, answer = "ok")
     IN IF incomingTx # <<>>
        THEN /\ poll' = [poll EXCEPT ![p] = [user |-> u, txs |-> incomingTx]]
             /\ monitor' = [monitor EXCEPT !.cycle[p].pc = "listing",
                                           !.lastFetch = last]
        ELSE /\ poll' = poll
             /\ monitor' = [monitor EXCEPT
                              !.cycle[p] = NextUser(c, answer = "ok"),
                              !.lastFetch = last]
  /\ response' = NoResponse
  /\ UNCHANGED <<db, chain, master, sent, verify, wreq, acct,
                 registration, consolidation, env>>

\* checkUserDeposits, one iteration of `for (const tx of incomingTx)` and,
\* after the last one or a throw, the step to the next user
CycleStep(p) ==
  /\ ~monitor.exited
  /\ monitor.cycle[p].pc = "listing"
  /\ poll[p].txs # <<>>
  /\ LET u == poll[p].user
         h == Head(poll[p].txs)
         rest == IF ~Processed(h) /\ ProcessDepositThrows(h)
                 THEN <<>> ELSE Tail(poll[p].txs)
     IN /\ IF Processed(h) THEN UNCHANGED db ELSE ProcessDeposit(u, h)
        /\ IF rest = <<>>
           THEN /\ poll' = [poll EXCEPT ![p] = IdlePoll]
                /\ monitor' = [monitor EXCEPT
                                 !.cycle[p] = NextUser(monitor.cycle[p], TRUE)]
           ELSE /\ poll' = [poll EXCEPT ![p] = [user |-> u, txs |-> rest]]
                /\ UNCHANGED monitor
  /\ response' = NoResponse
  /\ UNCHANGED <<chain, master, sent, verify, wreq, acct,
                 registration, consolidation, env>>

\* runMonitorCycle after the delay between two batches
CycleResume(p) ==
  /\ ~monitor.exited
  /\ monitor.cycle[p].pc = "delay"
  /\ monitor' = [monitor EXCEPT
                   !.cycle[p] = WhileLoop(@, monitor.isRunning)]
  /\ response' = NoResponse
  /\ UNCHANGED <<db, chain, master, sent, poll, verify, wreq, acct,
                 registration, consolidation, env>>

\* depositMonitor.stop()
StopMonitor(m) ==
  IF ~m.isRunning THEN [m EXCEPT !.noop = "stop"]
  ELSE [m EXCEPT !.isRunning = FALSE, !.noop = "none", !.timer = FALSE,
                 !.intervals = IF m.timer THEN @ - 1 ELSE @]

Stop ==
  /\ ~monitor.exited
  /\ monitor' = StopMonitor(monitor)
  /\ response' = NoResponse
  /\ UNCHANGED <<db, chain, master, sent, poll, verify, wreq, acct,
                 registration, consolidation, env>>

\* SIGTERM or SIGINT: depositMonitor.stop(), then process.exit(0); what the
\* cycles were awaiting never resumes
Shutdown ==
  /\ ~monitor.exited
  /\ monitor' = [StopMonitor(monitor) EXCEPT !.exited = TRUE]
  /\ response' = NoResponse
  /\ UNCHANGED <<db, chain, master, sent, poll, verify, wreq, acct,
                 registration, consolidation, env>>

MonitorNext ==
  \/ Start
  \/ \E p \in Pollers : Tick(p)
  \/ \E p \in Pollers, answer \in FetchAnswers : CycleFetch(p, answer)
  \/ \E p \in Pollers : CycleStep(p)
  \/ \E p \in Pollers : CycleResume(p)
  \/ Stop
  \/ Shutdown

\* the server is about to listen: two active accounts, transfers on chain,
\* the mnemonic valid or not, batches of one or two users or of the default
\* size
InitMonitor ==
  /\ InitTables([u \in UserIds |-> TRUE])
  /\ env \in [HD_MASTER_MNEMONIC : Mnemonics,
              DEPOSIT_MONITOR_BATCH_SIZE : {0, 1, 2}]
  /\ wallets = NoFunds
  /\ chain \in ChainConfigs
  /\ master = [usdt |-> 10000000, trx |-> MIN_MASTER_TRX * SUN_PER_TRX]

SpecMonitor == InitMonitor /\ [][MonitorNext]_vars

\* while the process lives, a listing asked for arrives or fails (the
\* request has a timeout), the for loop over a listing runs on, and the
\* delay between two batches ends
MonitorFairness ==
  \A p \in Pollers :
    /\ WF_vars(\E answer \in FetchAnswers : CycleFetch(p, answer))
    /\ WF_vars(CycleStep(p))
    /\ WF_vars(CycleResume(p))

SpecMonitorLive == InitMonitor /\ [][MonitorNext]_vars /\ MonitorFairness

\* an account is deactivated: UPDATE users SET is_active = 0, written to the
\* database from outside (no handler of the program writes the column)
Deactivate(u) ==
  /\ users[u].is_active
  /\ users' = [users EXCEPT ![u].is_active = FALSE]
  /\ response' = NoResponse
  /\ UNCHANGED <<deposits, processed_tx_hashes, transactions, withdrawals,
                 chain, master, sent, poll, verify, wreq, acct, registration,
                 consolidation, runtime>>

\* the interval timer fires after the cycle before it has ended (a poll
\* interval longer than a cycle)
TickAfterCycle(p) ==
  /\ \A q \in Pollers : monitor.cycle[q].pc = "idle"
  /\ Tick(p)

\* the monitor, started and left running, while accounts come and go: a
\* third account registers, any account is deactivated
MonitorAccountsNext ==
  \/ Start
  \/ \E p \in Pollers : TickAfterCycle(p)
  \/ \E p \in Pollers, answer \in FetchAnswers : CycleFetch(p, answer)
  \/ \E p \in Pollers : CycleStep(p)
  \/ \E p \in Pollers : CycleResume(p)
  \/ \E u \in Indices(users) : Deactivate(u)
  \/ \E r \in Reqs : RegisterBegin(r, Phones[3], Usernames[3])
  \/ \E r \in Reqs : RegisterFinish(r)

\* the server is about to listen with a valid mnemonic and batches of one or
\* two users; account 1 is about to receive 10 USDT
InitMonitorAccounts ==
  /\ InitTables([u \in UserIds |-> TRUE])
  /\ env \in [HD_MASTER_MNEMONIC : {"valid"},
              DEPOSIT_MONITOR_BATCH_SIZE : {1, 2}]
  /\ wallets = NoFunds
  /\ chain = [h \in Hashes |-> IF h = "h1" THEN Transfer(AddressOf(1), 1000)
                                ELSE NoTransfer]
  /\ master = [usdt |-> 10000000, trx |-> MIN_MASTER_TRX * SUN_PER_TRX]

SpecMonitorAccounts == InitMonitorAccounts /\ [][MonitorAccountsNext]_vars

\* ------------------------------------------ the amounts, as numbers
\* One account, one request at a time: the arithmetic of processDeposit,
\* processWithdrawal, sendUsdt and revertTx on JavaScript numbers.
Rate == NumberOfNat(USDT_TO_KES_RATE)

\* transfers to the account's address, in sun: 5, 8.89 and 10 USDT
AmountValues == {5000000, 8890000, 10000000}

\* ledger amounts a caller asks for, in hundredths of a KES: 130.13, 260, 1300
AmountRequests == {13013, 26000, 130000}

FailureMessages == {"Insufficient master wallet balance", "Insufficient TRX for gas"}

\* processDeposit: usdtAmount, the bounds, kesAmount and newBalance
CreditAmounts(value) ==
  LET usdtAmount == NumberDiv(NumberOfNat(value), SUN_PER_USDT)
      kesAmount == NumberMul(usdtAmount, Rate)
      currentBalance == acct.balance_kes
      newBalance == NumberAdd(currentBalance, kesAmount)
  IN /\ acct.steps < MaxAmountSteps
     /\ acct.withdrawal.status # "pending"
     /\ ~NumberLess(usdtAmount, ParseFloat(MIN_DEPOSIT))
     /\ ~NumberLess(ParseFloat(MAX_DEPOSIT), usdtAmount)
     /\ acct' = [acct EXCEPT !.balance_kes = newBalance, !.steps = @ + 1,
                             !.credits = Append(@, kesAmount)]
     /\ UNCHANGED <<db, chain, master, sent, poll, verify, wreq, response,
               registration, consolidation, runtime>>

\* processWithdrawal up to the await of sendUsdt: the bounds, usdtAmount,
\* the balance check and the debit with its ledger entry
DebitAmounts(hundredths) ==
  LET kesAmount == ParseFloat(hundredths)
      usdtAmount == NumberDiv(kesAmount, USDT_TO_KES_RATE)
      currentBalance == acct.balance_kes
      newBalance == NumberSub(currentBalance, kesAmount)
  IN /\ acct.steps < MaxAmountSteps
     /\ acct.withdrawal.status # "pending"
     /\ ~NumberLess(kesAmount, NumberMul(ParseFloat(MIN_WITHDRAWAL_USDT), Rate))
     /\ ~NumberLess(NumberMul(ParseFloat(MAX_WITHDRAWAL_USDT), Rate), kesAmount)
     /\ ~NumberLess(usdtAmount, ParseFloat(MIN_WITHDRAWAL_USDT))
     /\ ~NumberLess(ParseFloat(MAX_WITHDRAWAL_USDT), usdtAmount)
     /\ ~NumberLess(currentBalance, kesAmount)
     /\ acct' = [balance_kes |-> newBalance, steps |-> acct.steps + 1,
                 credits |-> acct.credits,
                 debits |-> Append(acct.debits, kesAmount),
                 withdrawal |->
                   [status |-> "pending", requested |-> hundredths,
                    kes_amount |-> kesAmount, usdt_amount |-> usdtAmount,
                    tx_hash |-> NULL, failure_reason |-> NULL, amountInSun |-> 0,
                    entries |-> <<[type |-> "withdrawal", amount |-> kesAmount,
                                   balance_before |-> currentBalance,
                                   balance_after |-> newBalance]>>]]
     /\ UNCHANGED <<db, chain, master, sent, poll, verify, wreq, response,
               registration, consolidation, runtime>>

\* sendUsdt accepted: amountInSun and the `completed` record
SendAmounts ==
  /\ acct.withdrawal.status = "pending"
  /\ LET amountInSun ==
           MathFloor(NumberMul(acct.withdrawal.usdt_amount, NumberOfNat(SUN_PER_USDT)))
     IN acct' = [acct EXCEPT !.withdrawal.status = "completed",
                             !.withdrawal.tx_hash = "tx",
                             !.withdrawal.amountInSun = amountInSun]
  /\ UNCHANGED <<db, chain, master, sent, poll, verify, wreq, response,
               registration, consolidation, runtime>>

\* sendUsdt threw: revertTx
RevertAmounts(message) ==
  /\ acct.withdrawal.status = "pending"
  /\ LET kesAmount == acct.withdrawal.kes_amount
         currentBalance == acct.balance_kes
         revertedBalance == NumberAdd(currentBalance, kesAmount)
     IN acct' = [acct EXCEPT
          !.balance_kes = revertedBalance,
          !.debits = SubSeq(@, 1, Len(@) - 1),
          !.withdrawal.status = "failed",
          !.withdrawal.failure_reason = message,
          !.withdrawal.entries = Append(@,
             [type |-> "refund", amount |-> kesAmount,
              balance_before |-> currentBalance,
              balance_after |-> revertedBalance])]
  /\ UNCHANGED <<db, chain, master, sent, poll, verify, wreq, response,
               registration, consolidation, runtime>>

AmountsNext ==
  \/ \E value \in AmountValues : CreditAmounts(value)
  \/ \E hundredths \in AmountRequests : DebitAmounts(hundredths)
  \/ SendAmounts
  \/ \E message \in FailureMessages : RevertAmounts(message)

InitAmounts ==
  /\ InitDb
  /\ wallets = NoFunds
  /\ chain = [h \in Hashes |-> NoTransfer]
  /\ master = [usdt |-> 10000000, trx |-> MIN_MASTER_TRX * SUN_PER_TRX]

SpecAmounts == InitAmounts /\ [][AmountsNext]_vars

DepositNext ==
  \/ \E p \in Pollers, u \in UserIds : PollFetch(p, u)
  \/ \E p \in Pollers : PollStep(p)
  \/ \E r \in Reqs, u \in UserIds, h \in Hashes : VerifyBegin(r, u, h)
  \/ \E r \in Reqs : VerifyFinish(r)

SpecDeposit == Init /\ [][DepositNext]_vars

\* the monitor stays running: every address keeps being polled (setInterval
\* and the batch loop of runMonitorCycle), the provider's listing eventually
\* succeeds, a started for loop runs on, and a call of verifyUsdtDeposit
\* returns or throws (axios timeout)
DepositFairness ==
  /\ \A u \in UserIds : SF_vars(\E p \in Pollers : PollFetchAnswer(p, u, TRUE))
  /\ \A p \in Pollers : WF_vars(PollStep(p))
  /\ \A r \in Reqs : WF_vars(VerifyFinish(r))

SpecDepositLive == Init /\ [][DepositNext]_vars /\ DepositFairness

\* withdrawals next to one poll cycle that credits the accounts
WithdrawalNext ==
  \/ \E u \in UserIds : PollFetch(1, u)
  \/ PollStep(1)
  \/ WithdrawNext

SpecWithdraw == InitWithdraw /\ [][WithdrawalNext]_vars

\* a started processWithdrawal runs on: the awaits of sendUsdt (the balance
\* reads and transfer(...).send) return or throw
WithdrawFairness ==
  /\ \A w \in WReqs : WF_vars(WithdrawCheck(w))
  /\ \A w \in WReqs : WF_vars(WithdrawSend(w))

SpecWithdrawLive == InitWithdraw /\ [][WithdrawalNext]_vars /\ WithdrawFairness

\* every writer of balances and ledger entries side by side: one poll cycle,
\* one manual verification at a time, and concurrent withdrawals of 200 and
\* 1300 KES
LedgerNext ==
  \/ \E u \in UserIds : PollFetch(1, u)
  \/ PollStep(1)
  \/ \E u \in UserIds, h \in Hashes : VerifyBegin(1, u, h)
  \/ VerifyFinish(1)
  \/ \E w \in WReqs, u \in UserIds, k \in {20000, 130000} :
       WithdrawBegin(w, u, ValidDestination, k)
  \/ \E w \in WReqs : WithdrawCheck(w)
  \/ \E w \in WReqs : WithdrawSend(w)

\* account 1 is about to receive 10 USDT and 5 USDT, the master wallet holds
\* 10 USDT and the gas floor
InitLedger ==
  /\ InitDb
  /\ wallets = NoFunds
  /\ chain = [h \in Hashes |-> IF h = "h1" THEN Transfer(AddressOf(1), 1000)
                                ELSE Transfer(AddressOf(1), 500)]
  /\ master = [usdt |-> 10000000, trx |-> MIN_MASTER_TRX * SUN_PER_TRX]

SpecLedger == InitLedger /\ [][LedgerNext]_vars

Next == DepositNext \/ WithdrawNext \/ RegisterNext \/ SweepNext \/ MonitorNext

Spec == Init /\ [][Next]_vars

\* ================================================================= claims
RECURSIVE LedgerNet(_, _)
\* the signed sum of the ledger entries of account u in log
LedgerNet(u, log) ==
  IF log = <<>> THEN 0
  ELSE LET e == Head(log) IN
       (IF e.user_id # u THEN 0
        ELSE IF e.type \in {"deposit", "refund"} THEN e.amount ELSE 0 - e.amount)
       + LedgerNet(u, Tail(log))

\* the 'deposit' ledger entries that reference a deposit record of hash h
DepositEntries(h) ==
  { i \in Indices(transactions) :
      /\ transactions[i].type = "deposit"
      /\ transactions[i].reference_type = "deposit"
      /\ transactions[i].reference_id \in Indices(deposits)
      /\ deposits[transactions[i].reference_id].tx_hash = h }

Completed(h) ==
  DepositIdOf(h) # 0 /\ deposits[DepositIdOf(h)].status = "completed"

InRange(h) ==
  chain[h].found /\ chain[h].value >= MIN_DEPOSIT /\ chain[h].value <= MAX_DEPOSIT

\* poller p handles hash h in this step (one iteration of its for loop)
PollHandles(p, h) ==
  poll[p].txs # <<>> /\ Head(poll[p].txs) = h /\ poll'[p] # poll[p]

\* C1: every hash is credited at most once, whatever the interleaving of
\* poll cycles and manual verifications: at most one 'deposit' ledger entry
\* references the hash, and the balances are exactly the sum of the ledger
\* entries, so the hash raised a balance by one ledger amount, never two.
C1_CreditedAtMostOnce ==
  /\ \A h \in Hashes : Cardinality(DepositEntries(h)) <= 1
  /\ \A u \in UserIds : users[u].balance_kes = LedgerNet(u, transactions)

\* a credited hash that a manual verification then tried to credit again
C1_Witness ==
  \E h \in Hashes :
    /\ Cardinality(DepositEntries(h)) = 1
    /\ response.txId = h
    /\ response.message = "This transaction has already been processed"

C3_State ==
  /\ \A h \in Hashes :
       /\ Processed(h) <=> Completed(h)
       /\ Processed(h) =>
            /\ \A m \in processed_tx_hashes :
                 m.tx_hash = h => m.deposit_id = DepositIdOf(h)
            /\ Cardinality(DepositEntries(h)) = 1
            /\ \A i \in DepositEntries(h) :
                 /\ transactions[i].reference_id = DepositIdOf(h)
                 /\ transactions[i].amount = deposits[DepositIdOf(h)].kes_amount
       /\ ~Processed(h) => DepositEntries(h) = {}
  /\ \A u \in UserIds : users[u].balance_kes = LedgerNet(u, transactions)

C3_FailedAttempt ==
  \A p \in Pollers, h \in Hashes :
    (PollHandles(p, h) /\ ~Processed(h) /\ DepositIdOf(h) # 0)
      => UNCHANGED <<users, transactions, processed_tx_hashes>>

\* C3: the four writes of a credit happen together or not at all: a marker
\* exists for a hash exactly when its deposit record is `completed`, and then
\* exactly one 'deposit' ledger entry references that record and the balance
\* holds its amount once; a poller credit whose deposit insert is rejected
\* leaves balances, ledger entries and markers unchanged.
C3_AllOrNothing == []C3_State /\ [][C3_FailedAttempt]_vars

\* one hash credited, and a record of another, creditable hash that makes
\* the poller's insert fail
C3_Witness ==
  \E h, g \in Hashes :
    /\ h # g
    /\ Processed(h) /\ Completed(h)
    /\ InRange(g) /\ DepositIdOf(g) # 0 /\ deposits[DepositIdOf(g)].status = "failed"
    /\ \E p \in Pollers : poll[p].txs # <<>> /\ Head(poll[p].txs) = g

C4_State ==
  /\ \A i \in Indices(deposits) :
       deposits[i].status = "completed" =>
         /\ deposits[i].usdt_amount = chain[deposits[i].tx_hash].value
         /\ deposits[i].kes_amount = deposits[i].usdt_amount * deposits[i].exchange_rate
         /\ deposits[i].exchange_rate = USDT_TO_KES_RATE
  /\ \A j \in Indices(transactions) :
       transactions[j].type = "deposit" =>
         /\ transactions[j].amount = deposits[transactions[j].reference_id].kes_amount
         /\ transactions[j].balance_after =
              transactions[j].balance_before + transactions[j].amount

C4_Step ==
  (Len(transactions') > Len(transactions)
     /\ transactions'[Len(transactions')].type = "deposit")
  => LET e == transactions'[Len(transactions')] IN
     /\ Len(transactions') = Len(transactions) + 1
     /\ deposits'[e.reference_id].status = "completed"
     /\ e.balance_before = users[e.user_id].balance_kes
     /\ e.balance_after = users'[e.user_id].balance_kes
     /\ users'[e.user_id].balance_kes =
          users[e.user_id].balance_kes + deposits'[e.reference_id].kes_amount
     /\ \A u \in UserIds \ {e.user_id} : users'[u] = users[u]

\* C4: for every deposit credited by the poller or by manual verification
\* the ledger amount is token amount x rate, the balance after the credit
\* is the balance before plus the ledger amount, and the ledger entry holds
\* exactly those before/after values.
C4_CreditAmounts == []C4_State /\ [][C4_Step]_vars

\* 5 tokens at rate 130 on balance 0: completed, ledger amount 650.00,
\* balance 650.00
C4_Witness ==
  \E i \in Indices(deposits), j \in Indices(transactions) :
    /\ deposits[i].status = "completed"
    /\ deposits[i].usdt_amount = 500
    /\ deposits[i].kes_amount = 65000
    /\ transactions[j].reference_id = i /\ transactions[j].type = "deposit"
    /\ transactions[j].balance_before = 0
    /\ transactions[j].balance_after = 65000
    /\ users[transactions[j].user_id].balance_kes = 65000

Credited(h) == Processed(h) /\ Completed(h) /\ DepositEntries(h) # {}

\* the transfer goes to the address of an active account, with an amount
\* within the bounds
Qualifies(h) ==
  /\ InRange(h)
  /\ \E u \in UserIds : users[u].is_active /\ users[u].tron_address = chain[h].to

\* C2: a qualifying transfer that the provider keeps listing is eventually
\* credited while the monitor runs, whatever manual verifications of its
\* hash were requested by any account.
C2_EventuallyCredited == \A h \in Hashes : Qualifies(h) ~> Credited(h)

\* manual request r finishes its verification of h in this step, for the
\* account the transfer was sent to and with an answer from the provider
VerifyDecides(r, h) ==
  /\ verify[r].pc = "awaiting" /\ verify[r].txId = h /\ verify'[r].pc = "idle"
  /\ response'.status # 500
  /\ chain[h].found /\ chain[h].to = users[verify[r].userId].tron_address

RowsOf(deps, h) == { i \in Indices(deps) : deps[i].tx_hash = h }

C5_Step ==
  \A h \in Hashes :
    LET handled ==
          /\ \/ \E p \in Pollers : PollHandles(p, h) /\ ~Processed(h)
             \/ \E r \in Reqs : VerifyDecides(r, h)
          \* and no manual verification of h is still under way afterwards
          /\ \A r \in Reqs : verify'[r].txId # h
    IN /\ (chain[h].found /\ ~InRange(h) /\ handled) =>
            /\ users' = users
            /\ transactions' = transactions
            /\ processed_tx_hashes' = processed_tx_hashes
            /\ RowsOf(deposits', h) # {}
            /\ \A i \in RowsOf(deposits', h) :
                 /\ deposits'[i].status = "rejected"
                 /\ deposits'[i].failure_reason # NULL
       /\ (chain[h].found /\ chain[h].value \in {MIN_DEPOSIT, MAX_DEPOSIT} /\ handled) =>
            /\ RowsOf(deposits', h) # {}
            /\ \A i \in RowsOf(deposits', h) : deposits'[i].status = "completed"

\* C5: a transfer below the minimum or above the maximum, handled by the
\* poller or by manual verification, leaves the balance unchanged and its
\* deposit record `rejected` with a failure reason, with no ledger entry and
\* no marker; an amount equal to the minimum or the maximum is credited.
C5_OutOfBoundsRejected == [][C5_Step]_vars

C6_Step ==
  \A h \in Hashes :
    Completed(h) =>
      /\ \A r \in Reqs :
           ~(verify[r].pc = "idle" /\ verify'[r].pc = "awaiting" /\ verify'[r].txId = h)
      /\ response'.txId = h =>
           /\ response'.status = 400
           /\ response'.message = "This transaction has already been processed"
           /\ UNCHANGED db
      /\ \A p \in Pollers : PollHandles(p, h) => UNCHANGED db

\* C6: whichever path completes a hash first wins: afterwards a manual
\* verifyDeposit of it starts no verification, answers 400 'already
\* processed' and changes nothing in the database, and a poller that handles
\* it changes nothing either.
C6_FirstWins == [][C6_Step]_vars

\* both hashes credited, and a manual verification of one just turned away
C6_Witness ==
  \E h, g \in Hashes :
    /\ h # g /\ Credited(h) /\ Credited(g)
    /\ response = [status |-> 400, txId |-> h,
                   message |-> "This transaction has already been processed"]

C7_Step ==
  \A p \in Pollers, h \in Hashes :
    (/\ PollHandles(p, h)
     /\ DepositIdOf(h) # 0
     /\ deposits[DepositIdOf(h)].status \in {"completed", "rejected"})
    => UNCHANGED db

\* C7: a poll that observes a transfer again, after it was credited or
\* rejected for its amount, is a no-op: balances, deposit records, ledger
\* entries and markers stay as the first observation left them.
C7_SecondObservationNoOp == [][C7_Step]_vars

\* an overlapping cycle about to handle a transfer that is already rejected
C7_Witness ==
  \E h \in Hashes :
    /\ DepositIdOf(h) # 0 /\ deposits[DepositIdOf(h)].status = "rejected"
    /\ poll[1].txs # <<>> /\ poll[2].txs # <<>> /\ Head(poll[2].txs) = h

\* the ledger entries of a type among those that reference the latest withdrawal
EntriesOfType(w, type) == SelectSeq(w.entries, LAMBDA e : e.type = type)

C8_Step ==
  (acct.withdrawal.status = "pending" /\ acct'.withdrawal.status = "failed") =>
    LET w == acct'.withdrawal
        debit == EntriesOfType(w, "withdrawal")[1]
    IN /\ acct'.balance_kes = debit.balance_before
       /\ w.failure_reason \in FailureMessages
       /\ Len(EntriesOfType(w, "refund")) = 1
       /\ EntriesOfType(w, "refund")[1].amount = debit.amount

\* C8: when the outbound transfer of a withdrawal fails, then with no other
\* operation on the account in between the balance is again the balance the
\* debit found (the balance_before of its 'withdrawal' ledger entry), the
\* record is `failed` with the failure reason, and exactly one 'refund' entry
\* of the debited amount references it.
C8_FailedTransferRestoresBalance == [][C8_Step]_vars

C9_Step ==
  (acct.withdrawal.status = "pending" /\ acct'.withdrawal.status = "completed") =>
    LET w == acct'.withdrawal
        debit == EntriesOfType(w, "withdrawal")[1]
    IN \* amountInSun / 10^6 = (requested / 100) / rate, cross-multiplied
       /\ ExactMul(NumberOfNat(w.amountInSun), NumberOfNat(100 * USDT_TO_KES_RATE))
            = ExactMul(NumberOfNat(w.requested), NumberOfNat(SUN_PER_USDT))
       /\ w.tx_hash # NULL
       /\ acct'.balance_kes = NumberSub(debit.balance_before, w.kes_amount)
       /\ Len(EntriesOfType(w, "withdrawal")) = 1
       /\ debit.amount = w.kes_amount
       /\ EntriesOfType(w, "refund") = <<>>

\* C9: a withdrawal of ledger amount A within the bounds and covered by the
\* balance, whose transfer succeeds, sends the token amount A / rate, ends
\* `completed` with the transaction hash, leaves the balance at the original
\* balance minus A, and has one 'withdrawal' ledger entry and no refund.
C9_SuccessfulWithdrawal == [][C9_Step]_vars

\* the 'refund' ledger entries that reference withdrawal record i
RefundsOf(i) ==
  { j \in Indices(transactions) :
      /\ transactions[j].type = "refund"
      /\ transactions[j].reference_type = "withdrawal"
      /\ transactions[j].reference_id = i }

C10_State ==
  \A i \in Indices(withdrawals) :
    LET w == withdrawals[i] IN
    /\ w.status \in {"pending", "completed", "failed"}
    /\ w.status = "completed" => w.tx_hash # NULL /\ RefundsOf(i) = {}
    /\ w.status = "failed" =>
         /\ w.failure_reason # NULL
         /\ w.tx_hash = NULL
         /\ Cardinality(RefundsOf(i)) = 1

C10_Step ==
  /\ Len(withdrawals') >= Len(withdrawals)
  /\ \A i \in Indices(withdrawals) :
       /\ withdrawals[i].status # "pending" => withdrawals'[i] = withdrawals[i]
       /\ withdrawals'[i].status # withdrawals[i].status =>
            /\ withdrawals[i].status = "pending"
            /\ withdrawals'[i].status \in {"completed", "failed"}
  /\ \A i \in Indices(withdrawals') \ Indices(withdrawals) :
       withdrawals'[i].status = "pending"

\* C10: a withdrawal record starts `pending` and its status only moves
\* pending -> completed or pending -> failed; a completed or failed record
\* never changes again; a completed record carries a transaction hash and has
\* no refund entry; a failed record has a failure reason, no transaction hash
\* and exactly one refund entry.
C10_StatusMachine == []C10_State /\ [][C10_Step]_vars

\* one withdrawal completed and another failed
C10_Witness ==
  \E i, j \in Indices(withdrawals) :
    /\ withdrawals[i].status = "completed" /\ withdrawals[i].tx_hash # NULL
    /\ withdrawals[j].status = "failed" /\ Cardinality(RefundsOf(j)) = 1

\* the 'withdrawal' ledger entries that reference withdrawal record i
DebitsOf(i) ==
  { j \in Indices(transactions) :
      /\ transactions[j].type = "withdrawal"
      /\ transactions[j].reference_type = "withdrawal"
      /\ transactions[j].reference_id = i }

\* the debit of withdrawal record i is committed: the record and one
\* 'withdrawal' ledger entry of its amount, which took the amount off the
\* balance
DebitCommitted(i) ==
  /\ i \in Indices(withdrawals)
  /\ Cardinality(DebitsOf(i)) = 1
  /\ \A j \in DebitsOf(i) :
       /\ transactions[j].user_id = withdrawals[i].user_id
       /\ transactions[j].amount = withdrawals[i].kes_amount
       /\ transactions[j].balance_after =
            transactions[j].balance_before - withdrawals[i].kes_amount

C11_State ==
  \A w \in WReqs :
    wreq[w].pc \in {"checking", "sending"} =>
      /\ DebitCommitted(wreq[w].withdrawalId)
      /\ withdrawals[wreq[w].withdrawalId].status = "pending"

C11_Step ==
  sent' # sent =>
    \E w \in WReqs :
      /\ wreq[w].pc = "sending"
      /\ DebitCommitted(wreq[w].withdrawalId)
      /\ withdrawals[wreq[w].withdrawalId].status = "pending"
      /\ sent' = Append(sent, sent'[Len(sent')])
      /\ sent'[Len(sent')].to = withdrawals[wreq[w].withdrawalId].to_address

\* C11: the transfer of a withdrawal is requested from the chain only after
\* the transaction that debits the account, creates the `pending` record and
\* appends the 'withdrawal' ledger entry has committed: a request that is
\* inside sendUsdt has a committed debit, and every transfer handed to the
\* chain belongs to such a request.
C11_DebitBeforeTransfer == []C11_State /\ [][C11_Step]_vars

\* one transfer was sent and another request is about to submit its own
C11_Witness ==
  /\ Len(sent) = 1
  /\ \E w \in WReqs : wreq[w].pc = "sending" /\ DebitCommitted(wreq[w].withdrawalId)

\* the inputs of processWithdrawal that C12 names, read in the state before
\* the call
BadWithdrawal(u, kesAmount) ==
  \/ kesAmount < MIN_WITHDRAWAL_USDT * USDT_TO_KES_RATE
  \/ kesAmount > MAX_WITHDRAWAL_USDT * USDT_TO_KES_RATE
  \/ u \notin UserIds
  \/ (u \in UserIds /\ kesAmount > users[u].balance_kes)

C12_Step ==
  \A w \in WReqs, u \in UserIds \cup {UnknownUserId},
     a \in Destinations, k \in WithdrawAmounts :
    (BadWithdrawal(u, k) /\ WithdrawBegin(w, u, a, k)) =>
      /\ response'.status = 400
      /\ response'.message \in {"Minimum withdrawal", "Maximum withdrawal",
                                "User not found", "Insufficient balance"}
      /\ UNCHANGED <<users, withdrawals, transactions, deposits,
                     processed_tx_hashes, sent, master, wreq>>

\* C12: processWithdrawal called with a ledger amount below minimum x rate,
\* above maximum x rate or above the account's balance, or for an unknown
\* account, fails with an error and changes nothing: no balance, no
\* withdrawal record, no ledger entry, and no transfer is requested.
C12_RejectedWithdrawalChangesNothing == [][C12_Step]_vars

\* after one withdrawal went through, a request beyond the remaining balance
\* was refused
C12_Witness ==
  /\ Len(withdrawals) = 1
  /\ response.status = 400 /\ response.message = "Insufficient balance"

\* C13: under every interleaving of poller credits, manual credits,
\* withdrawal debits and refunds, with several withdrawals of one account in
\* flight at once, every account's ledger balance is at least zero.
C13_BalanceNonNegative == \A u \in UserIds : users[u].balance_kes >= 0

\* two withdrawals of one account in flight at once, which left less than
\* one of them on the balance
C13_Witness ==
  \E i, j \in Indices(withdrawals) :
       /\ i # j /\ withdrawals[i].user_id = withdrawals[j].user_id
       /\ withdrawals[i].status = "pending" /\ withdrawals[j].status = "pending"
       /\ users[withdrawals[i].user_id].balance_kes < withdrawals[i].kes_amount

\* the ledger amounts of the completed deposits of account u, summed
DepositedBy(u) ==
  LedgerNet(u, [i \in Indices(deposits) |->
                  [user_id |-> deposits[i].user_id, type |-> "deposit",
                   amount |-> IF deposits[i].status = "completed"
                              THEN deposits[i].kes_amount ELSE 0]])

\* the ledger amounts of the pending or completed withdrawals of account u,
\* summed
WithdrawnBy(u) ==
  0 - LedgerNet(u, [i \in Indices(withdrawals) |->
                      [user_id |-> withdrawals[i].user_id, type |-> "withdrawal",
                       amount |-> IF withdrawals[i].status \in {"pending", "completed"}
                                  THEN withdrawals[i].kes_amount ELSE 0]])

\* C14: no update of a balance is lost under any interleaving of poller
\* credits, manual credits, withdrawal debits and refunds: every account's
\* balance equals the sum of the ledger amounts of its completed deposits
\* minus the ledger amounts of its pending or completed withdrawals.
C14_BalanceIsDepositsMinusWithdrawals ==
  \A u \in UserIds : users[u].balance_kes = DepositedBy(u) - WithdrawnBy(u)

\* the same equation on the stored numbers, where the sum has one term: an
\* account with one completed deposit and no pending or completed withdrawal
\* holds exactly that deposit's ledger amount
BalanceIsSingleDeposit ==
  (Len(acct.credits) = 1 /\ acct.debits = <<>>) => acct.balance_kes = acct.credits[1]

C15_State ==
  \A j \in Indices(transactions) :
    LET e == transactions[j] IN
    /\ e.type \in {"deposit", "withdrawal", "refund"}
    /\ e.type \in {"deposit", "refund"} => e.balance_after = e.balance_before + e.amount
    /\ e.type = "withdrawal" => e.balance_after = e.balance_before - e.amount

C15_Step ==
  /\ Len(transactions') >= Len(transactions)
  /\ \A j \in Indices(transactions) : transactions'[j] = transactions[j]

\* C15: every ledger entry has balance_after = balance_before + amount for a
\* deposit or a refund and balance_after = balance_before - amount for a
\* withdrawal, and ledger entries are only ever inserted: no operation
\* changes or removes an entry.
C15_LedgerAppendOnly == []C15_State /\ [][C15_Step]_vars

\* a ledger with a deposit, a withdrawal and a refund entry
C15_Witness ==
  \A type \in {"deposit", "withdrawal", "refund"} :
    \E j \in Indices(transactions) : transactions[j].type = type

\* C16: under every interleaving of concurrent register requests no two
\* accounts have the same derivation index or the same address.
C16_NoSharedIndexOrAddress ==
  \A i, j \in Indices(users) :
    i # j => /\ users[i].derivation_index # users[j].derivation_index
             /\ users[i].tron_address # users[j].tron_address

\* two register requests were under way at once and the first has committed
C16_Witness ==
  /\ Len(users) = Cardinality(UserIds) + 1
  /\ \E r \in Reqs : register[r].pc = "hashing"
  /\ response.status = 201

C17_State ==
  \A id \in Indices(users) :
    users[id].derivation_index < wallet_config.next_derivation_index

C17_Step ==
  /\ wallet_config'.next_derivation_index >= wallet_config.next_derivation_index
  /\ Len(users') >= Len(users)
  /\ \A id \in Indices(users) : users'[id].derivation_index = users[id].derivation_index
  /\ Len(users') > Len(users) =>
       /\ Len(users') = Len(users) + 1
       /\ users'[Len(users')].derivation_index = wallet_config.next_derivation_index
       /\ wallet_config'.next_derivation_index = wallet_config.next_derivation_index + 1
       /\ response'.status = 201
  /\ Len(users') = Len(users) =>
       /\ wallet_config' = wallet_config
       /\ response'.status # 201

\* C17: next_derivation_index never decreases, grows by exactly 1 with each
\* successful registration and stays as it is otherwise, and is always
\* greater than every derivation index of an account; the index read, the
\* account inserted with it and the increment are one step.
C17_MonotonicAllocation == []C17_State /\ [][C17_Step]_vars

\* two registrations committed, each with the index the counter held
C17_Witness ==
  /\ Len(users) = Cardinality(UserIds) + 2
  /\ wallet_config.next_derivation_index = Cardinality(UserIds) + 2

\* C18: every transfer a sweep submitted, from sweepAll or from the admin
\* sweepUser, left an address whose TRX balance, as sweepUserWallet had
\* queried it, was at least the gas floor of 10 TRX; and the step that
\* submits one is taken with such a queried balance.
C18_State ==
  \A k \in Indices(sweep.submitted) :
    ~NumberLess(sweep.submitted[k].trxBalance, NumberOfNat(MIN_SWEEP_TRX))

C18_Step ==
  Len(sweep'.submitted) > Len(sweep.submitted) =>
    \E who \in {"all", "one"} :
      /\ sweep[who].call.pc = "transfer"
      /\ ~NumberLess(sweep[who].call.trxBalance, NumberOfNat(MIN_SWEEP_TRX))
      /\ sweep'.submitted = Append(sweep.submitted, sweep'.submitted[Len(sweep'.submitted)])
      /\ sweep'.submitted[Len(sweep'.submitted)].from = sweep[who].call.from

C18_NoSweepBelowGasFloor == []C18_State /\ [][C18_Step]_vars

\* both entry points have submitted a transfer, and a sweepAll run has ended
\* with a wallet swept and another one failed
C18_Witness ==
  /\ \E k \in Indices(sweep.submitted) : sweep.submitted[k].by = "all"
  /\ \E k \in Indices(sweep.submitted) : sweep.submitted[k].by = "one"
  /\ sweep.all.pc = "done"
  /\ "details" \in DOMAIN sweep.all.results
  /\ \E k \in Indices(sweep.all.results.details) :
       sweep.all.results.details[k].status = "failed"

\* the entries of the results of the sweepAll run, none while it has none
DetailsOf(a) ==
  IF "details" \in DOMAIN a.results THEN a.results.details ELSE <<>>

\* the results r account for the candidates c one by one: an entry each, in
\* order, needs_gas exactly for those found below the gas floor, and the
\* three counters are the numbers of entries of each status
Partitions(r, c) ==
  /\ {"swept", "failed", "needsGas", "details"} \subseteq DOMAIN r
  /\ Len(r.details) = Len(c)
  /\ \A k \in Indices(c) :
       /\ r.details[k].userId = c[k].userId
       /\ r.details[k].address = c[k].address
       /\ r.details[k].status \in {"needs_gas", "swept", "failed"}
       /\ r.details[k].status = "needs_gas" <=>
            NumberLess(c[k].trxBalance, NumberOfNat(MIN_SWEEP_TRX))
  /\ r.needsGas = Cardinality({k \in Indices(c) : r.details[k].status = "needs_gas"})
  /\ r.swept = Cardinality({k \in Indices(c) : r.details[k].status = "swept"})
  /\ r.failed = Cardinality({k \in Indices(c) : r.details[k].status = "failed"})
  /\ r.swept + r.failed + r.needsGas = Len(c)

\* the wallets found by the scan are the candidates: active accounts, each
\* once, with a queried token balance of at least the minimum
AreCandidates(c) ==
  /\ \A k \in Indices(c) :
       /\ users[c[k].userId].is_active
       /\ c[k].address = users[c[k].userId].tron_address
       /\ ~NumberLess(c[k].usdtBalance, NumberOfNat(MIN_SWEEP_AMOUNT))
  /\ \A k, l \in Indices(c) : c[k].userId = c[l].userId => k = l

\* C19: when sweepAll has returned, every candidate has exactly one entry in
\* the details of the result, with status needs_gas (TRX below the floor at
\* the scan), swept or failed, and swept + failed + needsGas is the number
\* of candidates.
C19_SweepAllPartitionsCandidates ==
  sweep.all.pc = "done" =>
    /\ AreCandidates(sweep.all.wallets)
    /\ Partitions(sweep.all.results, sweep.all.wallets)

\* the same for the runs that found at least one candidate, and at every
\* point of the loop: the entries written so far are those of the wallets
\* before wallet i
PartitionsFoundWallets ==
  LET a == sweep.all
  IN /\ a.pc \in {"call", "delay"} =>
          /\ AreCandidates(a.wallets)
          /\ Partitions(a.results, SubSeq(a.wallets, 1, a.i - 1))
     /\ a.pc = "done" /\ a.wallets # <<>> =>
          /\ AreCandidates(a.wallets)
          /\ Partitions(a.results, a.wallets)

\* a step in which sweepAll writes a needs_gas entry submits no transfer for
\* that account; one that writes a swept entry submits exactly the transfer
\* of that entry, from the address of that entry
EntriesMatchTransfers ==
  LET old == DetailsOf(sweep.all)
      new == DetailsOf(sweep'.all)
      added == {k \in Indices(new) : k > Len(old)}
  IN sweep'.all.pc \in {"call", "delay", "done"} /\ sweep.all.pc # "done" =>
       /\ \A k \in added : new[k].status = "needs_gas" =>
            \A j \in Indices(sweep'.submitted) :
              j > Len(sweep.submitted) => sweep'.submitted[j].userId # new[k].userId
       /\ \A k \in added : new[k].status = "swept" =>
            /\ Len(sweep'.submitted) = Len(sweep.submitted) + 1
            /\ new[k].txHash = Len(sweep'.submitted)
            /\ sweep'.submitted[new[k].txHash].from = new[k].address
            /\ sweep'.submitted[new[k].txHash].by = "all"

SweepAllPartitionsFoundWallets ==
  []PartitionsFoundWallets /\ [][EntriesMatchTransfers]_vars

\* a sweepAll run has returned after it found two candidates, one without
\* gas and one that it swept
PartitionReached ==
  /\ sweep.all.pc = "done"
  /\ Len(sweep.all.wallets) = 2
  /\ \E k \in Indices(DetailsOf(sweep.all)) : DetailsOf(sweep.all)[k].status = "needs_gas"
  /\ \E k \in Indices(DetailsOf(sweep.all)) : DetailsOf(sweep.all)[k].status = "swept"

\* C20: every transfer a sweep submitted, from sweepAll or from the admin
\* sweepUser, left the address of an active account whose token balance, as
\* the sweep had queried it, was at least MIN_SWEEP_USDT.
C20_SweepOnlyActiveAboveMinimum ==
  \A k \in Indices(sweep.submitted) :
    /\ users[sweep.submitted[k].userId].is_active
    /\ sweep.submitted[k].from = users[sweep.submitted[k].userId].tron_address
    /\ ~NumberLess(sweep.submitted[k].amount, NumberOfNat(MIN_SWEEP_AMOUNT))

\* the same for the transfers of sweepAll alone
SweepAllOnlyActiveAboveMinimum ==
  \A k \in Indices(sweep.submitted) :
    sweep.submitted[k].by = "all" =>
      /\ users[sweep.submitted[k].userId].is_active
      /\ sweep.submitted[k].from = users[sweep.submitted[k].userId].tron_address
      /\ ~NumberLess(sweep.submitted[k].amount, NumberOfNat(MIN_SWEEP_AMOUNT))

\* the admin sweepUser has submitted a transfer of less than MIN_SWEEP_USDT
\* from the address of an active account
AdminSweptBelowMinimum ==
  \E k \in Indices(sweep.submitted) :
    /\ sweep.submitted[k].by = "one"
    /\ users[sweep.submitted[k].userId].is_active
    /\ NumberLess(sweep.submitted[k].amount, NumberOfNat(MIN_SWEEP_AMOUNT))

\* the admin sweepUser has submitted a transfer from the address of a
\* deactivated account
AdminSweptDeactivated ==
  \E k \in Indices(sweep.submitted) :
    /\ sweep.submitted[k].by = "one"
    /\ ~users[sweep.submitted[k].userId].is_active

TerminalStatuses == {"completed", "failed", "rejected"}

C23_Step ==
  /\ Len(deposits') >= Len(deposits)
  /\ \A i \in Indices(deposits) :
       /\ deposits[i].status \in TerminalStatuses =>
            deposits'[i].status = deposits[i].status
       /\ deposits[i].status = "completed" => deposits'[i] = deposits[i]

\* C23: a deposit record whose status is completed, failed or rejected keeps
\* that status in every later step of the poller and of manual verification,
\* whichever account verifies its hash, and a completed record keeps all of
\* its fields.
C23_TerminalDepositNeverChanges == [][C23_Step]_vars

\* the part of it that concerns completed records: no step changes or
\* removes one
CompletedDepositStep ==
  /\ Len(deposits') >= Len(deposits)
  /\ \A i \in Indices(deposits) :
       deposits[i].status = "completed" => deposits'[i] = deposits[i]

CompletedDepositNeverChanges == [][CompletedDepositStep]_vars

\* a record that was `failed` is `completed` after a later verification
FailedThenCompleted ==
  \E i \in Indices(deposits) :
    /\ deposits[i].status = "completed"
    /\ deposits[i].failure_reason # NULL

\* the record of hash h is `verifying` and no manual verification of h is
\* under way: the request that set it has ended (500 after a provider error)
LeftVerifying(h) ==
  /\ DepositIdOf(h) # 0
  /\ deposits[DepositIdOf(h)].status = "verifying"
  /\ \A r \in Reqs : verify[r].txId # h

Terminal(h) ==
  DepositIdOf(h) # 0 /\ deposits[DepositIdOf(h)].status \in TerminalStatuses

\* C24: a deposit record left `verifying` by a manual verification that has
\* ended does not stay so forever: while the monitor polls and requests are
\* answered, the record reaches completed, failed or rejected.
C24_VerifyingIsResumed == \A h \in Hashes : LeftVerifying(h) ~> Terminal(h)

\* no step of the poller or of manual verification changes a record left
\* `verifying`, and no step starts a verification of its hash
LeftVerifyingStep ==
  \A h \in Hashes :
    LeftVerifying(h) =>
      /\ deposits'[DepositIdOf(h)] = deposits[DepositIdOf(h)]
      /\ \A r \in Reqs : verify'[r].txId # h
      /\ ~Processed(h)'

LeftVerifyingIsForever == [][LeftVerifyingStep]_vars

\* a record is left `verifying` for a transfer that qualifies, and the
\* poller has the hash in the listing it is working on
LeftVerifyingReached ==
  \E h \in Hashes, p \in Pollers :
    /\ LeftVerifying(h) /\ Qualifies(h)
    /\ poll[p].txs # <<>> /\ Head(poll[p].txs) = h

C26_Step ==
  \A p \in Pollers :
    (poll[p].txs # <<>> /\ poll'[p] # poll[p]) =>
      poll'[p].txs = Tail(poll[p].txs)

\* C26: when the poller has handled one transfer of a listing, whether it
\* credited it, rejected it, skipped it or failed on it, the transfers of
\* the listing that follow it are still to be handled in the same cycle.
C26_TransferFailureIsolated == [][C26_Step]_vars

\* the same, for the steps in which processDeposit does not throw
TransferHandledStep ==
  \A p \in Pollers :
    (/\ poll[p].txs # <<>> /\ poll'[p] # poll[p]
     /\ ~(~Processed(Head(poll[p].txs)) /\ ProcessDepositThrows(Head(poll[p].txs))))
    => poll'[p].txs = Tail(poll[p].txs)

ListingRunsOnWithoutThrow == [][TransferHandledStep]_vars

\* the poller is about to handle the first of two listed transfers, whose
\* INSERT will be refused
ThrowBeforeSecondTransfer ==
  \E p \in Pollers :
    /\ Len(poll[p].txs) = 2
    /\ ~Processed(poll[p].txs[1]) /\ ProcessDepositThrows(poll[p].txs[1])
    /\ Qualifies(poll[p].txs[2]) /\ ~Processed(poll[p].txs[2])
    /\ DepositIdOf(poll[p].txs[2]) = 0

\* every credit went to the account the transfer was sent to, and a poller
\* works only on transfers sent to the address it polls
C30_State ==
  /\ \A j \in Indices(transactions) :
       transactions[j].type = "deposit" =>
         chain[deposits[transactions[j].reference_id].tx_hash].to
           = users[transactions[j].user_id].tron_address
  /\ \A p \in Pollers : \A k \in Indices(poll[p].txs) :
       chain[poll[p].txs[k]].to = users[poll[p].user].tron_address

\* a manual verification that gets the transfer from the provider and finds
\* another destination than the address of its account
FindsOtherDestination(r) ==
  /\ verify[r].pc = "awaiting" /\ verify'[r].pc = "idle"
  /\ response'.status # 500
  /\ chain[verify[r].txId].found
  /\ chain[verify[r].txId].to # users[verify[r].userId].tron_address

C30_Step ==
  /\ \A u \in UserIds :
       users'[u].balance_kes > users[u].balance_kes =>
         \E h \in Hashes :
           /\ chain[h].found /\ chain[h].to = users[u].tron_address
           /\ ~Processed(h) /\ Processed(h)'
  /\ \A r \in Reqs :
       FindsOtherDestination(r) =>
         /\ deposits'[verify[r].depositId].status = "failed"
         /\ deposits'[verify[r].depositId].failure_reason # NULL
         /\ response'.status = 400
         /\ UNCHANGED <<users, transactions, processed_tx_hashes>>

WithGas(a, n) ==
  LET c == SelectSeq(SubSeq(a.wallets, 1, n), LAMBDA w : w.hasSufficientGas)
  IN [k \in Indices(c) |-> c[k].userId]

\* sweepUserWallet was called once for each wallet with gas that the loop
\* has reached, in order, whatever the calls before it returned
C21_State ==
  LET a == sweep.all
  IN /\ a.pc = "call" => a.attempts = WithGas(a, a.i)
     /\ a.pc = "delay" => a.attempts = WithGas(a, a.i - 1)
     /\ a.pc = "done" /\ a.wallets # <<>> =>
          /\ a.attempts = WithGas(a, Len(a.wallets))
          /\ Len(a.results.details) = Len(a.wallets)

\* C21: in sweepAll a failed candidate (key derivation, provider, transfer
\* or recording of the sweep) never stops the loop: sweepUserWallet is
\* called for every candidate with sufficient gas, each once and in order,
\* and a run that has started returns its results.
C21_SweepFailureIsolated ==
  /\ []C21_State
  /\ (sweep.all.pc \in {"scanning", "call", "delay"}) ~> (sweep.all.pc = "done")

\* a run has returned after the sweep of its first candidate failed and its
\* second candidate was swept
C21_Witness ==
  /\ sweep.all.pc = "done"
  /\ Len(sweep.all.attempts) = 2
  /\ DetailsOf(sweep.all)[1].status = "failed"
  /\ DetailsOf(sweep.all)[2].status = "swept"

\* the SweepRecords of a submitted transfer: its hash, account, source
\* address, the consolidation address and the amount that was transferred
RecordsOf(e) ==
  {k \in Indices(sweeps) :
     /\ sweeps[k].tx_hash = e.tx
     /\ sweeps[k].user_id = e.userId
     /\ sweeps[k].from_address = e.from
     /\ sweeps[k].to_address = CONSOLIDATION_ADDRESS
     /\ sweeps[k].usdt_amount = NumberDiv(NumberOfNat(e.amountInSun), SUN_PER_USDT)}

\* every SweepRecord is the record of a submitted transfer from the address
\* of its account to the consolidation address, and no hash is recorded twice
RecordOnlyOfSubmitted ==
  /\ \A k \in Indices(sweeps) :
       /\ sweeps[k].tx_hash \in Indices(sweep.submitted)
       /\ sweeps[k].user_id = sweep.submitted[sweeps[k].tx_hash].userId
       /\ sweeps[k].from_address = sweep.submitted[sweeps[k].tx_hash].from
       /\ sweeps[k].to_address = CONSOLIDATION_ADDRESS
  /\ \A j, k \in Indices(sweeps) : sweeps[j].tx_hash = sweeps[k].tx_hash => j = k

\* the call that submitted a transfer returns success
SubmittedStep ==
  Len(sweep'.submitted) > Len(sweep.submitted) =>
    \/ /\ sweep.one.pc = "call" /\ sweep'.one.pc # "call"
       /\ response'.status = 200
    \/ /\ sweep.all.pc = "call" /\ sweep'.all.pc # "call"
       /\ DetailsOf(sweep'.all)[Len(DetailsOf(sweep'.all))].status = "swept"

\* C22: every sweep transfer that was submitted has exactly one SweepRecord
\* with its hash, account id, source address, the consolidation address and
\* the swept amount, and the call that submitted it reports success; there
\* is no SweepRecord of a transfer that was not submitted.
C22_SubmittedSweepRecorded ==
  /\ [](\A k \in Indices(sweep.submitted) :
          Cardinality(RecordsOf(sweep.submitted[k])) = 1)
  /\ []RecordOnlyOfSubmitted
  /\ [][SubmittedStep]_vars

\* a transfer was submitted and has no SweepRecord at all
SubmittedUnrecorded ==
  \E k \in Indices(sweep.submitted) :
    \A j \in Indices(sweeps) : sweeps[j].tx_hash # k

\* a transfer was submitted and recorded with an amount that is not the
\* amount transferred
RecordedOtherAmount ==
  \E k \in Indices(sweep.submitted) : \E j \in Indices(sweeps) :
    /\ sweeps[j].tx_hash = k
    /\ sweeps[j].usdt_amount #
         NumberDiv(NumberOfNat(sweep.submitted[k].amountInSun), SUN_PER_USDT)

\* without the master secret no account's balance is being queried by
\* sweepAll, no candidate was found and no result entry written
C28_State ==
  GetMasterMnemonicThrows =>
    /\ sweep.all.pc \in {"idle", "done"}
    /\ sweep.all.wallets = <<>>
    /\ sweep.all.attempts = <<>>
    /\ DetailsOf(sweep.all) = <<>>

\* without the master secret a call of sweepAll is answered with an error
C28_Step ==
  GetMasterMnemonicThrows /\ sweep'.all # sweep.all =>
    /\ response' # NoResponse
    /\ response'.status # 200

\* C28: with the master secret missing or invalid sweepAll does no
\* per-address work (no balance query, no transfer attempt, no `failed`
\* result for a candidate) and fails as a whole.
C28_SweeperNeedsSecret == []C28_State /\ [][C28_Step]_vars

\* without the master secret no transfer is submitted and no sweep recorded
NoTransferWithoutSecret ==
  GetMasterMnemonicThrows =>
    /\ sweep.submitted = <<>>
    /\ sweeps = <<>>
    /\ \A who \in {"all", "one"} : sweep[who].call = NoCall

\* without the master secret a run of sweepAll has queried the balances and
\* returned success: true with a `failed` entry for a candidate
FailedEntryWithoutSecret ==
  /\ GetMasterMnemonicThrows
  /\ sweep.all.pc = "done"
  /\ sweep.all.results.success
  /\ \E k \in Indices(DetailsOf(sweep.all)) :
       DetailsOf(sweep.all)[k].status = "failed"

\* the poller has credited nothing: no deposit row, no marker, no
\* transaction row, every balance as at the start
NothingCredited ==
  /\ deposits = <<>>
  /\ processed_tx_hashes = {}
  /\ transactions = <<>>
  /\ \A u \in Indices(users) : users[u].balance_kes = 0

\* C27: with the master secret missing or invalid, depositMonitor.start()
\* leaves the monitor not running: no interval timer, no poll cycle, and no
\* deposit is ever credited by the poller.
C27_MonitorNeedsSecret ==
  GetMasterMnemonicThrows =>
    /\ ~monitor.isRunning
    /\ ~monitor.timer
    /\ \A p \in Pollers : monitor.cycle[p] = IdleCycle /\ poll[p] = IdlePoll
    /\ \A u \in UserIds : monitor.lastFetch[u] = "none"
    /\ NothingCredited

\* start() was called with a mnemonic that is set and not valid
C27_Witness ==
  /\ env.HD_MASTER_MNEMONIC = "invalid"
  /\ monitor.started
  /\ ~monitor.exited

\* the first n active accounts, in the order of the SELECT
FirstActive(n) == SubSeq(ActiveUserIds, 1, Min(n, Len(ActiveUserIds)))

\* a cycle drops no address: the accounts it has polled and those left in
\* its batch are the active accounts up to the end of the batch, in order,
\* and a cycle starts with the first batch whatever happened before
C25_State ==
  \A p \in Pollers :
    LET c == monitor.cycle[p]
    IN /\ c.pc \in {"fetching", "listing"} =>
            /\ c.batch # <<>>
            /\ c.polled \o c.batch = FirstActive(c.offset + BATCH_SIZE)
       /\ c.pc = "delay" => c.polled = FirstActive(c.offset)

\* a listing that failed or was malformed changes nothing in the database
\* and leaves the rest of the batch to be polled; a cycle that ends while
\* the monitor is running has polled every active account
C25_Step ==
  \A p \in Pollers :
    LET c == monitor.cycle[p]
        d == monitor'.cycle[p]
    IN /\ /\ c.pc = "fetching"
          /\ d # c
          /\ monitor'.lastFetch[Head(c.batch)] = "failed"
          => /\ UNCHANGED db
             /\ poll' = poll
             /\ d.polled = Append(c.polled, Head(c.batch))
             /\ Len(c.batch) > 1 => d.pc = "fetching" /\ d.batch = Tail(c.batch)
       /\ /\ c.pc # "idle"
          /\ d.pc = "idle"
          /\ monitor.isRunning
          => d.polled = ActiveUserIds

\* C25: when the listing of transfers fails or is malformed for one
\* address, the ledger of that account is unchanged in this cycle, every
\* other address of the batch is still polled in the same cycle, and the
\* next cycle polls the failed address again.
C25_ListingFailureIsolated == []C25_State /\ [][C25_Step]_vars

\* the listing of account 1 failed in a cycle that went on to account 2, and
\* a later listing of account 1 was received and its deposit credited
C25_Witness ==
  /\ monitor.lastFetch[1] = "retried"
  /\ monitor.lastFetch[2] = "ok"
  /\ users[1].balance_kes > 0
  /\ \E p \in Pollers : monitor.cycle[p].polled = <<1, 2>>

\* cycle p is inside a batch: checkUserDeposits awaits a listing or runs
\* the for loop over one
InFlight(p) == monitor.cycle[p].pc \in {"fetching", "listing"}

\* while the monitor is not running no cycle and no batch is started: a
\* cycle that awaits a listing was inside the same batch before
C29_Step ==
  ~monitor.isRunning /\ ~monitor'.isRunning =>
    \A p \in Pollers :
      LET c == monitor.cycle[p]
          d == monitor'.cycle[p]
      IN d.pc = "fetching" => InFlight(p) /\ d.offset = c.offset

\* C29: after stop() is called during a poll cycle, the batch in flight is
\* processed to its end, no further batch of that cycle is started, and no
\* later cycle runs until start() is called again.
C29_StopLetsBatchFinish ==
  /\ \A p \in Pollers : (~monitor.isRunning /\ InFlight(p)) ~> ~InFlight(p)
  /\ [][C29_Step]_vars

\* as long as the process lives, a batch in flight when stop() is called is
\* processed to its end
StopLetsBatchFinishUnlessExit ==
  \A p \in Pollers :
    (~monitor.isRunning /\ InFlight(p)) ~> (~InFlight(p) \/ monitor.exited)

\* no cycle and no batch is started while the monitor is not running
NoBatchStartsWhileStopped == [][C29_Step]_vars

\* the process has exited with a batch in flight
ExitedInFlight == monitor.exited /\ \E p \in Pollers : InFlight(p)

\* the cycles in progress
CyclesInProgress == {p \in Pollers : monitor.cycle[p].pc # "idle"}

\* C32: at most one poll cycle is in progress at any time; an interval tick
\* that fires while the previous cycle still runs starts no second cycle.
C32_SingleCycle == Cardinality(CyclesInProgress) <= 1

\* one step starts at most one cycle
OneCycleStartsAtATime ==
  [][Cardinality(CyclesInProgress') <= Cardinality(CyclesInProgress) + 1]_vars

\* two cycles await the listing of the same account
TwoCyclesOnOneAccount ==
  \E p, q \in Pollers :
    /\ p # q
    /\ monitor.cycle[p].pc = "fetching"
    /\ monitor.cycle[q].pc = "fetching"
    /\ Head(monitor.cycle[p].batch) = Head(monitor.cycle[q].batch)

\* the timer is set exactly when the monitor is running, and there is never
\* more than one
C39_State ==
  /\ monitor.intervals <= 1
  /\ (monitor.intervals = 1) <=> monitor.isRunning
  /\ monitor.timer <=> monitor.isRunning

\* start() on a running monitor and stop() on a stopped one change neither
\* the flag, nor the timer, nor the cycles, nor the database
C39_Step ==
  (Start /\ monitor.isRunning) \/ (Stop /\ ~monitor.isRunning) =>
    /\ monitor'.isRunning = monitor.isRunning
    /\ monitor'.timer = monitor.timer
    /\ monitor'.intervals = monitor.intervals
    /\ monitor'.cycle = monitor.cycle
    /\ UNCHANGED <<db, poll>>

\* C39: start() while the monitor is running and stop() while it is not are
\* no-ops: over any sequence of start and stop calls at most one interval
\* timer exists, and one exists exactly when the running flag is true.
C39_StartStopIdempotent == []C39_State /\ [][C39_Step]_vars

\* start() has just returned at `if (isRunning)`, the monitor running with
\* its one timer
C39_Witness ==
  /\ monitor.noop = "start"
  /\ monitor.isRunning
  /\ monitor.timer
  /\ monitor.intervals = 1

\* stop() has just returned at `if (!isRunning)` after the monitor had been
\* started and stopped
StoppedTwice ==
  /\ monitor.noop = "stop"
  /\ monitor.started
  /\ ~GetMasterMnemonicThrows
  /\ ~monitor.exited

\* how often account u is in the sequence s
Occurrences(s, u) == Cardinality({k \in Indices(s) : s[k] = u})

\* a batch holds at most BATCH_SIZE accounts
C31_State ==
  \A p \in Pollers : Len(monitor.cycle[p].batch) <= BATCH_SIZE

\* the account whose listing a cycle asks for is active, and a cycle that
\* has run through all its batches has polled once every account that was
\* active when it started and still is, and no account twice
C31_Step ==
  \A p \in Pollers :
    LET c == monitor.cycle[p]
        d == monitor'.cycle[p]
    IN /\ d.pc = "fetching" /\ (c.pc # "fetching" \/ d.batch # c.batch)
            => users[Head(d.batch)].is_active
       /\ c.pc # "idle" /\ d.pc = "idle" /\ d.offset >= d.total
            => /\ \A k \in Indices(d.startActive) :
                    users[d.startActive[k]].is_active
                      => Occurrences(d.polled, d.startActive[k]) = 1
               /\ \A k \in Indices(d.polled) :
                    Occurrences(d.polled, d.polled[k]) = 1

\* C31: a poll cycle that runs to completion polls every account that is
\* active with an address when the cycle starts exactly once, in batches of
\* at most BATCH_SIZE accounts, and never polls a deactivated account, also
\* when accounts are registered or deactivated during the cycle.
C31_CyclePollsActiveOnce == []C31_State /\ [][C31_Step]_vars

\* a cycle has run through all its batches without polling an account that
\* was active at its start and still is
ActiveAccountSkipped ==
  \E p \in Pollers :
    LET c == monitor.cycle[p]
    IN /\ c.pc = "idle"
       /\ c.total > 0
       /\ c.offset >= c.total
       /\ \E k \in Indices(c.startActive) :
            /\ users[c.startActive[k]].is_active
            /\ Occurrences(c.polled, c.startActive[k]) = 0

\* a cycle awaits the listing of a deactivated account
DeactivatedAccountPolled ==
  \E p \in Pollers :
    /\ monitor.cycle[p].pc = "fetching"
    /\ monitor.cycle[p].polled # <<>>
    /\ ~users[Head(monitor.cycle[p].batch)].is_active

\* a call of sweepUserWallet holds the private key only once the gas check
\* has passed
C33_State ==
  \A who \in {"all", "one"} :
    sweep[who].call.privateKey => sweep[who].call.pc = "transfer"

\* a call that returns for insufficient gas has derived no private key
C33_Step ==
  \A who \in {"all", "one"} :
    /\ sweep[who].call.pc = "gas"
    /\ sweep'[who].call.pc = "none"
    => ~sweep[who].call.privateKey

\* C33: derivePrivateKey is called only after the address has passed the
\* gas-floor check, immediately before the transfer is submitted; on no
\* sweep entry point is a key derived for an address that is then skipped
\* for insufficient gas.
C33_KeyDerivedAfterGasCheck == []C33_State /\ [][C33_Step]_vars

\* sweepAll derives no key for a wallet it found below the gas floor at its
\* scan, and no call holds a key without the master secret
NoKeyForNeedsGas ==
  /\ sweep.all.call.privateKey =>
       sweep.all.wallets[sweep.all.i].hasSufficientGas
  /\ \A who \in {"all", "one"} :
       sweep[who].call.privateKey => ~GetMasterMnemonicThrows

\* the admin sweep of one account holds the private key while the TRX
\* balance of an address below the gas floor is queried
KeyHeldBelowGasFloor ==
  /\ sweep.one.call.pc = "gas"
  /\ sweep.one.call.privateKey
  /\ wallets[sweep.one.call.userId].trx < MIN_SWEEP_TRX * SUN_PER_TRX

\* C34: an account is never both paid out and refunded for the same
\* withdrawal: a refund is written only when no outbound transfer was
\* submitted for it, also when the UPDATE that marks the withdrawal
\* completed fails after the transfer succeeded.
C34_NeverPaidAndRefunded ==
  \A k \in Indices(sent) : RefundsOf(sent[k].withdrawalId) = {}

\* a withdrawal is paid out and refunded only when the UPDATE after its
\* transfer threw, and no withdrawal is refunded twice
PaidAndRefundedOnlyOnDbError ==
  /\ \A k \in Indices(sent) :
       RefundsOf(sent[k].withdrawalId) # {} =>
         withdrawals[sent[k].withdrawalId].failure_reason = "database error"
  /\ \A id \in Indices(withdrawals) : Cardinality(RefundsOf(id)) <= 1

\* ------------------------------------------------------------------ C38
PendingWithdrawal(i) ==
  i \in Indices(withdrawals) /\ withdrawals[i].status = "pending"

ResolvedWithdrawal(i) ==
  i \in Indices(withdrawals) /\ withdrawals[i].status \in {"completed", "failed"}

\* a call of processWithdrawal is still working on withdrawal i
WithdrawalInFlight(i) ==
  \E w \in WReqs : wreq[w].pc # "idle" /\ wreq[w].withdrawalId = i

\* C38: every withdrawal whose debit committed (a `pending` record exists)
\* eventually reaches `completed` or `failed`, provided the provider calls
\* return or throw; no withdrawal stays `pending` forever
C38_DebitedWithdrawalResolves ==
  \A i \in 1..MaxWithdrawals : PendingWithdrawal(i) ~> ResolvedWithdrawal(i)

\* what does hold: a withdrawal is resolved or its call has ended, and it is
\* pending without a call only after revertTx threw
ResolvedOrAbandoned ==
  \A i \in 1..MaxWithdrawals :
    PendingWithdrawal(i) ~> (ResolvedWithdrawal(i) \/ ~WithdrawalInFlight(i))

AbandonedOnlyByRevertTxThrows ==
  [][\A i \in 1..MaxWithdrawals :
       (PendingWithdrawal(i)' /\ ~WithdrawalInFlight(i)'
          /\ ~(PendingWithdrawal(i) /\ ~WithdrawalInFlight(i)))
       => (\E w \in WReqs : wreq[w].withdrawalId = i /\ RevertTxThrows(w))]_vars

\* a pending withdrawal, debited, that no call will ever touch again
AbandonedPending ==
  \E i \in Indices(withdrawals) :
    /\ PendingWithdrawal(i) /\ ~WithdrawalInFlight(i)
    /\ RefundsOf(i) = {}
    /\ \A k \in Indices(sent) : sent[k].withdrawalId # i

\* ------------------------------------------------------------------ C40
\* sendUsdt's three conditions, on the master wallet as it is now
MasterCanSend(wd) ==
  /\ wd.to_address.first = "T" /\ wd.to_address.length = TRON_ADDRESS_LENGTH
  /\ ~MasterBalanceBelow(master.usdt, wd.usdt_amount)
  /\ master.trx >= MIN_MASTER_TRX * SUN_PER_TRX

\* a transfer is submitted only while the three conditions hold
SubmittedOnlyWhenMasterCanSend ==
  (Len(sent') > Len(sent))
    => MasterCanSend(withdrawals[sent'[Len(sent')].withdrawalId])

\* a call of sendUsdt that meets a failed condition ends the withdrawal
\* `failed` with its refund
FailedCheckRefunds ==
  \A w \in WReqs :
    (/\ wreq[w].pc = "checking"
     /\ ~MasterCanSend(withdrawals[wreq[w].withdrawalId])
     /\ WithdrawCheck(w))
    => /\ sent' = sent
       /\ withdrawals'[wreq[w].withdrawalId].status = "failed"
       /\ Cardinality(RefundsOf(wreq[w].withdrawalId)') = 1

\* C40: no withdrawal transfer is submitted while the master wallet's token
\* balance is below the amount, its TRX balance is below 10 TRX or the
\* destination is not a 34-character address starting with "T"; sendUsdt
\* fails before submitting and the withdrawal ends `failed` with its refund
C40_NoTransferWithoutMasterFunds ==
  [][SubmittedOnlyWhenMasterCanSend /\ FailedCheckRefunds]_vars

C40_SubmissionPart == [][SubmittedOnlyWhenMasterCanSend]_vars

C40_RefundPart == [][FailedCheckRefunds]_vars

\* what does hold: a failed condition met by sendUsdt's own reads submits
\* nothing, and every submitted transfer goes to a well-formed destination
\* after its own call passed the three reads
FailedCheckSubmitsNothing ==
  [][/\ \A w \in WReqs :
          (/\ wreq[w].pc = "checking"
           /\ ~MasterCanSend(withdrawals[wreq[w].withdrawalId])
           /\ WithdrawCheck(w))
          => (sent' = sent /\ wreq'[w].pc = "idle")
     /\ (Len(sent') > Len(sent))
          => LET i == sent'[Len(sent')].withdrawalId IN
             /\ withdrawals[i].to_address = ValidDestination
             /\ \E w \in WReqs : wreq[w].pc = "sending" /\ wreq[w].withdrawalId = i]_vars

\* ------------------------------------------------------------------ C35
\* the 'deposit' ledger entries written for deposit record d
DepositEntriesOf(d) ==
  { j \in Indices(transactions) :
      /\ transactions[j].type = "deposit"
      /\ transactions[j].reference_type = "deposit"
      /\ transactions[j].reference_id = d }

\* C35: for every completed deposit record, the account that was credited
\* (the account of the record's 'deposit' ledger entry) is the account
\* recorded on the deposit record, also when a manual verification reused a
\* non-completed record that another account's request created
C35_CreditedAccountIsRecorded ==
  \A d \in Indices(deposits) :
    deposits[d].status = "completed"
      => \A j \in DepositEntriesOf(d) : transactions[j].user_id = deposits[d].user_id

\* what does hold: the credited account is the owner of the address the
\* transfer went to, and every completed record has exactly one entry
CreditedAccountOwnsAddress ==
  \A d \in Indices(deposits) :
    deposits[d].status = "completed"
      => /\ Cardinality(DepositEntriesOf(d)) = 1
         /\ \A j \in DepositEntriesOf(d) :
              users[transactions[j].user_id].tron_address = deposits[d].to_address

\* ------------------------------------------------------------------ C36
\* the ledger entries of account u, oldest first
EntriesOf(u) == SelectSeq(transactions, LAMBDA e : e.user_id = u)

C36_State ==
  \A u \in UserIds :
    LET es == EntriesOf(u) IN
    /\ users[u].balance_kes = IF es = <<>> THEN 0 ELSE es[Len(es)].balance_after
    /\ \A k \in Indices(es) :
         es[k].balance_before = IF k = 1 THEN 0 ELSE es[k - 1].balance_after

C36_Step ==
  \A u \in UserIds :
    users'[u].balance_kes # users[u].balance_kes
      => /\ Len(transactions') = Len(transactions) + 1
         /\ SubSeq(transactions', 1, Len(transactions)) = transactions
         /\ transactions'[Len(transactions')].user_id = u

\* C36: every account's balance equals the balance_after of its latest
\* ledger entry (0 without entries), every entry's balance_before equals the
\* balance_after of the account's previous entry, and no step changes a
\* balance without appending a ledger entry of that account
C36_BalanceFollowsLedger == []C36_State /\ [][C36_Step]_vars

\* an account credited while its withdrawal was in flight, the withdrawal
\* then refunded: debit, deposit and refund entries in this order
C36_Witness ==
  \E u \in UserIds :
    LET es == EntriesOf(u) IN
    \E a, b, c \in Indices(es) :
      /\ a < b /\ b < c
      /\ es[a].type = "withdrawal" /\ es[b].type = "deposit"
      /\ es[c].type = "refund" /\ es[c].reference_id = es[a].reference_id

\* ------------------------------------------------------------------ C37
\* the insert of registration r would hit a row that a concurrent
\* registration committed since r's own check
DuplicateAtInsert(r) ==
  \E id \in Indices(users) :
    users[id].phone = register[r].phone \/ users[id].username = register[r].username

\* every index below the counter belongs to exactly one account
C37_State ==
  /\ wallet_config.next_derivation_index = Len(users)
  /\ \A i \in 0..(Len(users) - 1) :
       Cardinality({id \in Indices(users) : users[id].derivation_index = i}) = 1

C37_Step ==
  \A r \in Reqs :
    (/\ register[r].pc = "hashing"
     /\ DuplicateAtInsert(r) \/ GetMasterMnemonicThrows
     /\ register'[r].pc = "idle")
    => /\ users' = users
       /\ wallet_config' = wallet_config
       /\ response'.status = 500

\* C37: a registration that fails at insert time on a duplicate phone or
\* username committed during the hashing, or on an address derivation error,
\* creates no account and leaves next_derivation_index unchanged: no index
\* is consumed or skipped
C37_FailedRegistrationChangesNothing == []C37_State /\ [][C37_Step]_vars

\* two registrations of one phone passed the check together; one committed
\* and the other was answered 500
C37_Witness ==
  /\ response.status = 500
  /\ env.HD_MASTER_MNEMONIC = "valid"
  /\ Len(users) = Cardinality(UserIds) + 1
  /\ \A r \in Reqs : register[r].pc = "idle"

\* a registration refused for the missing mnemonic
RegistrationWithoutMnemonic ==
  /\ response.status = 500
  /\ env.HD_MASTER_MNEMONIC = "unset"
  /\ Len(users) = Cardinality(UserIds)

====
